---- MODULE Spec2Model ----
(***************************************************************************)
(* Response orchestration of PlasmaMind Chat: App.handleSendMessage        *)
(* (src/App.tsx), GeminiAdapter.chatStream and GeminiAdapter.generateImage *)
(* (src/services/aiAdapter.ts and its copy src/unnamed/part_002),          *)
(* chatService (src/services/chatService.ts) and InputArea                 *)
(* (src/components/Chat/MessageItem.tsx).                                  *)
(*                                                                         *)
(* Strings are modelled as sequences of tokens: '' is <<>> and a + b is    *)
(* a \o b.  A persisted-store request takes effect at the step that        *)
(* delivers its response.  Identifiers made by the database are positive   *)
(* integers, identifiers made by crypto.randomUUID() in the browser are    *)
(* negative ones, null is 0.                                               *)
(***************************************************************************)
EXTENDS Integers, Sequences, FiniteSets, TLC

\* ------------------------------------------------------------------ bounds
\* Fragments the provider delivers in one behaviour, over all its streams.
MaxFrags == 3
\* Requests (store, upload, provider) that fail in one behaviour.
MaxFaults == 2
\* Messages of a list handed to chatStream by an arbitrary caller.
MaxMsgs == 2

\* The sends of one behaviour; the second may overlap the first.
Sends == {1, 2}

\* ------------------------------------------------------------------- data
\* The text a streamed fragment carries; "" stands for a falsy chunk.text
\* (undefined or the empty string).
FragmentTexts == {"", "Hi", " there"}

Modes == {"CHAT", "IMAGE"}

\* The user's prompt (one token).
UserText == <<"Hello">>

\* App.tsx:262, 271, 281, 327: the literal parts of generated contents.
GeneratingText == <<"Generating image...">>
ImageCaption == <<"Here is your image for: ">>
FailedText == <<"Failed to generate image. Error: ">>
ErrorNote == <<"\n\n[Error: ", "err", "]">>

\* A reference is a sequence of tokens, cut where the code cuts it: at the
\* scheme, ':', ';' and ','.  No reference (undefined, null, '') is <<>>.
NoUrl == <<>>

\* `data:${mimeType};base64,${data}`
DataUrl(mimeType, data) == <<"data", ":", mimeType, ";", "base64", ",", data>>

\* The reference generateImage resolves to.
ImageUrl == DataUrl("image/jpeg", "imageBytes")
\* supabase.storage getPublicUrl, and InputArea's FileReader preview.
PublicUrl == <<"http", "s", ":", "//storage/chat-attachments/file.png">>
PreviewUrl == DataUrl("image/png", "fileBytes")
\* A reference that is neither inline nor fetched by the adapter.
BlobUrl == <<"blob", ":", "local-object">>

\* The references the adapter may fetch.
HttpUrls == {PublicUrl}

NoConv == 0

LocalId(s) == 0 - s

VARIABLES
  dbSeq,                  \* last identifier the database generated
  dbConvs,                \* conversations table: id -> [title, updated_at]
  dbMessages,             \* messages table, in created_at order
  currentConversationId,  \* App state (App.tsx:20)
  messages,               \* App state: the visible transcript (App.tsx:21)
  isLoading,              \* App state (App.tsx:22)
  send,                   \* per send: the position of handleSendMessage and its locals
  stream,                 \* per send: the chatStream invocation
  imageCall,              \* a generateImage invocation, looked at on its own
  faults,                 \* requests that have failed so far
  dbProviders,            \* ai_providers table: id -> [name]
  serviceCall,            \* a chatService call, looked at on its own
  session,                \* App state: a user is signed in (App.tsx:18)
  loads,                  \* conversations whose loadMessages, started by the
                          \* effect of App.tsx:99-105 on a selection, is pending
  deletion,               \* the handleDeleteConversation call in flight
  gestures                \* the user's actions at the sidebar so far

vars == <<dbSeq, dbConvs, dbMessages, currentConversationId, messages, isLoading,
          send, stream, imageCall, faults, dbProviders, serviceCall, session,
          loads, deletion, gestures>>

dbVars == <<dbSeq, dbConvs, dbMessages>>

svcVars == <<dbProviders, serviceCall>>

navVars == <<session, loads, deletion, gestures>>

appVars == <<currentConversationId, messages, isLoading, send, stream, imageCall, faults>>

\* ------------------------------------------------------------ chatService
\* The row `insert(...).select().single()` returns: the payload plus the
\* identifier the database generates.
Row(id, msg) ==
  [id |-> id,
   conversation_id |-> msg.conversation_id,
   role |-> msg.role,
   content |-> msg.content,
   image_url |-> msg.image_url,
   attachments |-> msg.attachments]

NewMessage(conv, role, content, image, atts) ==
  [conversation_id |-> conv, role |-> role, content |-> content,
   image_url |-> image, attachments |-> atts]

\* chatService.addMessage, its backend call succeeding: the insert, then the
\* bump of the conversation's updated_at (whose own error is not looked at).
AddMessage(msg) ==
  /\ dbSeq' = dbSeq + 1
  /\ dbMessages' = Append(dbMessages, Row(dbSeq + 1, msg))
  /\ dbConvs' = [c \in DOMAIN dbConvs |->
                   IF c = msg.conversation_id
                     THEN [dbConvs[c] EXCEPT !.updated_at = dbSeq + 1]
                     ELSE dbConvs[c]]

\* chatService.getMessages: the conversation's rows, created_at ascending.
GetMessages(conv) ==
  SelectSeq(dbMessages, LAMBDA m : m.conversation_id = conv)

\* chatService.createConversation, its backend call succeeding.
CreateConversation(title) ==
  /\ dbSeq' = dbSeq + 1
  /\ dbConvs' = [c \in DOMAIN dbConvs \cup {dbSeq + 1} |->
                   IF c = dbSeq + 1
                     THEN [title |-> title, updated_at |-> dbSeq + 1]
                     ELSE dbConvs[c]]

\* The conversation's messages are deleted (chatService.ts:46).
DeleteMessagesOf(id) ==
  dbMessages' = SelectSeq(dbMessages, LAMBDA m : m.conversation_id # id)

\* The conversation's row is deleted (chatService.ts:49-52).
DeleteConversationRow(id) ==
  dbConvs' = [c \in DOMAIN dbConvs \ {id} |-> dbConvs[c]]

\* A chatService call: the operation, its argument, the backend request it
\* awaits, what the backend reported for each request it made, and what the
\* call returned or rejected with.  messagesBefore is the messages table at
\* the moment of the call.
NoServiceCall ==
  [op |-> "none", arg |-> [kind |-> "none", id |-> 0], pc |-> "idle",
   request |-> 0, reported |-> <<>>, result |-> <<>>, error |-> <<>>,
   messagesBefore |-> <<>>]

\* A handleDeleteConversation call: the identifier, whether it was the
\* selected conversation in the render that made the call, and the delete
\* request it awaits.
NoDeletion == [pc |-> "none", id |-> NoConv, wasCurrent |-> FALSE]

\* ---------------------------------------------------- GeminiAdapter.chatStream
\* One invocation: where it stands, the list it was given, the fragments it
\* has taken from the provider's stream, the callbacks it has invoked, and
\* whether an exception was thrown inside its try block.
\* attachment is the just-added attachment it was given; history and message
\* are the prior turns and the current turn it composed for the provider;
\* fetched are the fetches urlToInlineData made, with the turn each was for.
NoStream ==
  [pc |-> "none", msgs |-> <<>>, attachment |-> NoUrl,
   history |-> <<>>, message |-> <<>>, fetched |-> {},
   emitted |-> <<>>, log |-> <<>>, failed |-> FALSE]

Invoked(msgs, attachment) ==
  [NoStream EXCEPT !.pc = "compose", !.msgs = msgs, !.attachment = attachment]

OnChunk(text) == [cb |-> "onChunk", arg |-> text]
OnComplete == [cb |-> "onComplete", arg |-> ""]
OnError == [cb |-> "onError", arg |-> "err"]

\* A callback is invoked.
Call(c, ev) == [c EXCEPT !.log = Append(@, ev)]

\* An exception is thrown inside the try block.
Thrown(c) == [c EXCEPT !.failed = TRUE]

\* Mutant of Catch: the error is logged and swallowed, onError is not invoked.
CatchSilent(c, errorThrows) == [c EXCEPT !.pc = "returned"]

\* The catch block (aiAdapter.ts:122-125): onError(error); when onError itself
\* throws the promise chatStream returned rejects.
Catch(c, errorThrows) ==
  [Call(c, OnError) EXCEPT !.pc = IF errorThrows THEN "rejected" ELSE "returned"]

\* ------------------------------------------------ the request composer
\* att.startsWith(prefix)
StartsWith(url, prefix) ==
  Len(url) >= Len(prefix) /\ SubSeq(url, 1, Len(prefix)) = prefix

\* The position of the first token tok at or after position from, 0 if none.
IndexFrom(seq, tok, from) ==
  LET hits == {i \in DOMAIN seq : i >= from /\ seq[i] = tok}
  IN  IF hits = {} THEN 0 ELSE CHOOSE i \in hits : \A j \in hits : i <= j

\* const [header, data] = att.split(','): the text before the first comma,
\* and the text between the first and the second (undefined, here <<>>, when
\* there is no comma).
SplitHeader(url) ==
  IF IndexFrom(url, ",", 1) = 0 THEN url
  ELSE SubSeq(url, 1, IndexFrom(url, ",", 1) - 1)

SplitData(url) ==
  LET first == IndexFrom(url, ",", 1)
      second == IndexFrom(url, ",", first + 1)
  IN  IF first = 0 THEN <<>>
      ELSE SubSeq(url, first + 1, IF second = 0 THEN Len(url) ELSE second - 1)

\* header.match(/:(.*?);/)?.[1] || 'application/octet-stream'
MimeType(header) ==
  LET colon == IndexFrom(header, ":", 1)
      semi == IF colon = 0 THEN 0 ELSE IndexFrom(header, ";", colon + 1)
  IN  IF semi = 0 \/ semi = colon + 1 THEN <<"application/octet-stream">>
      ELSE SubSeq(header, colon + 1, semi - 1)

\* aiAdapter.ts:64-66, 88-90, 98-100
ParseDataUrl(url) ==
  [mimeType |-> MimeType(SplitHeader(url)), data |-> SplitData(url)]

\* What urlToInlineData resolves to when the fetch succeeds (aiAdapter.ts:7-24):
\* the bytes of the resource, named here by its reference.
Fetched(url) == [mimeType |-> <<"image/png">>, data |-> <<"bytes of">> \o url]

TextPart(text) ==
  [kind |-> "text", text |-> text, mimeType |-> <<>>, data |-> <<>>]

InlinePart(inlineData) ==
  [kind |-> "inlineData", text |-> <<>>,
   mimeType |-> inlineData.mimeType, data |-> inlineData.data]

\* Mutant of AttachmentParts: a failed fetch leaves a part without data.
AttachmentPartsKeepsFailed(att, reachable) ==
  IF StartsWith(att, <<"data", ":">>) THEN <<InlinePart(ParseDataUrl(att))>>
  ELSE IF StartsWith(att, <<"http">>)
    THEN IF att \in reachable THEN <<InlinePart(Fetched(att))>>
         ELSE <<InlinePart([mimeType |-> <<>>, data |-> <<>>])>>
  ELSE <<>>

\* aiAdapter.ts:61-73 and 94-101: the parts one attachment reference gives.
\* urlToInlineData (aiAdapter.ts:5-29) resolves to null when the fetch fails,
\* and the part is then left out.
AttachmentParts(att, reachable) ==
  IF StartsWith(att, <<"data", ":">>) THEN <<InlinePart(ParseDataUrl(att))>>
  ELSE IF StartsWith(att, <<"http">>)
    THEN IF att \in reachable THEN <<InlinePart(Fetched(att))>> ELSE <<>>
  ELSE <<>>

\* for (const att of attachments), in order
RECURSIVE PartsOf(_, _)
PartsOf(atts, reachable) ==
  IF atts = <<>> THEN <<>>
  ELSE AttachmentParts(Head(atts), reachable) \o PartsOf(Tail(atts), reachable)

\* Mutant of HistoryTurn: the message's role is passed on as it is.
HistoryTurnKeepsRole(m, reachable) ==
  [role |-> m.role,
   parts |-> <<TextPart(m.content)>> \o PartsOf(m.attachments, reachable)]

\* aiAdapter.ts:56-81: the turn of one message other than the newest.
HistoryTurn(m, reachable) ==
  [role |-> IF m.role = "assistant" THEN "model" ELSE "user",
   parts |-> <<TextPart(m.content)>> \o PartsOf(m.attachments, reachable)]

\* messages.slice(0, -1).map(...) under Promise.all: one turn per message,
\* in the order of the list.
History(msgs, reachable) ==
  [i \in 1..(Len(msgs) - 1) |-> HistoryTurn(msgs[i], reachable)]

\* Mutant of MessageContent: the recorded references are resolved as well.
MessageContentBoth(last, attachment, reachable) ==
  <<TextPart(last.content)>>
    \o (IF attachment # NoUrl THEN <<InlinePart(ParseDataUrl(attachment))>>
        ELSE <<>>)
    \o PartsOf(last.attachments, reachable)

\* aiAdapter.ts:83-103: the current turn, from the newest message.
MessageContent(last, attachment, reachable) ==
  <<TextPart(last.content)>>
    \o (IF attachment # NoUrl THEN <<InlinePart(ParseDataUrl(attachment))>>
        ELSE PartsOf(last.attachments, reachable))

\* The fetches made for the messages at the positions turns.
FetchesFor(msgs, turns, reachable) ==
  UNION {{[turn |-> i, url |-> msgs[i].attachments[k],
           ok |-> msgs[i].attachments[k] \in reachable] :
            k \in {j \in DOMAIN msgs[i].attachments :
                     /\ ~StartsWith(msgs[i].attachments[j], <<"data", ":">>)
                     /\ StartsWith(msgs[i].attachments[j], <<"http">>)}} :
         i \in turns}

\* aiAdapter.ts:55-103: the request is composed; reading the newest message
\* of an empty list throws.  reachable are the references whose fetch succeeds.
StepCompose(c, reachable, errorThrows) ==
  IF c.msgs = <<>> THEN Catch(Thrown(c), errorThrows)
  ELSE LET n == Len(c.msgs)
       IN  [c EXCEPT
              !.pc = "open",
              !.history = History(c.msgs, reachable),
              !.message = MessageContent(c.msgs[n], c.attachment, reachable),
              !.fetched = FetchesFor(c.msgs,
                                     IF c.attachment # NoUrl THEN 1..(n - 1) ELSE 1..n,
                                     reachable)]

\* aiAdapter.ts:105-112: the chat is created and the stream opened.
StepOpen(c, ok, errorThrows) ==
  IF ok THEN [c EXCEPT !.pc = "stream"] ELSE Catch(Thrown(c), errorThrows)

\* Mutant of StepFragment: onChunk without the test of chunk.text.
StepFragmentAnyText(c, text, chunkThrows, errorThrows) ==
  LET called == Call([c EXCEPT !.emitted = Append(@, text)], OnChunk(text))
  IN  IF chunkThrows THEN Catch(Thrown(called), errorThrows) ELSE called

\* aiAdapter.ts:114-118: one fragment arrives; onChunk when its text is truthy.
StepFragment(c, text, chunkThrows, errorThrows) ==
  LET taken == [c EXCEPT !.emitted = Append(@, text)]
  IN  IF text = "" THEN taken
      ELSE IF chunkThrows
        THEN Catch(Thrown(Call(taken, OnChunk(text))), errorThrows)
      ELSE Call(taken, OnChunk(text))

\* aiAdapter.ts:114: the stream throws while the next fragment is awaited.
StepStreamError(c, errorThrows) == Catch(Thrown(c), errorThrows)

\* aiAdapter.ts:120: the stream is exhausted; onComplete() inside the try.
StepEnd(c, completeThrows, errorThrows) ==
  IF completeThrows THEN Catch(Thrown(Call(c, OnComplete)), errorThrows)
  ELSE [Call(c, OnComplete) EXCEPT !.pc = "returned"]

\* The callbacks a step invoked.
NewCalls(c, d) == SubSeq(d.log, Len(c.log) + 1, Len(d.log))

\* ------------------------------------------- GeminiAdapter.generateImage
\* The two texts of the adapter in src: services/aiAdapter.ts, which App.tsx
\* imports, and the unnamed copy part_002.
Builds == {"aiAdapter.ts", "part_002"}

\* Model identifiers, cut so that the marker is a token of its own.
ModelNames == {<<"imagen", "-3.0-generate">>, <<"Imagen", "-3.0-generate">>,
               <<"gemini-2.5-flash-image">>}

\* String.prototype.toLowerCase on a token.
LowerToken(tok) ==
  IF tok = "Imagen" THEN "imagen"
  ELSE IF tok = "I CANNOT GENERATE IMAGES" THEN "cannot generate images"
  ELSE tok

ToLowerCase(text) == [i \in DOMAIN text |-> LowerToken(text[i])]

\* String.prototype.includes for a marker that is one token.
Includes(text, marker) == \E i \in DOMAIN text : text[i] = marker

\* aiAdapter.ts:131 and part_002:131: the test that selects the dedicated path.
HasImagenMarker(build, modelName) ==
  IF build = "part_002" THEN Includes(ToLowerCase(modelName), "imagen")
  ELSE Includes(modelName, "imagen")

\* One invocation: where it stands, the requests it has made to the
\* provider, the responses it got, and what it resolved to or rejected with.
NoImageCall ==
  [pc |-> "none", build |-> "aiAdapter.ts", modelName |-> <<>>,
   requests |-> <<>>, imagen |-> "", parts |-> <<>>, hasParts |-> FALSE,
   result |-> NoUrl, error |-> <<>>]

\* aiAdapter.ts:128-136 / 143-154: the call runs to its first provider request.
InvokedImage(build, modelName) ==
  IF HasImagenMarker(build, modelName)
    THEN [NoImageCall EXCEPT !.pc = "imagen", !.build = build,
                             !.modelName = modelName,
                             !.requests = <<"generateImages">>]
    ELSE [NoImageCall EXCEPT !.pc = "content", !.build = build,
                             !.modelName = modelName,
                             !.requests = <<"generateContent">>]

Resolved(g, url) == [g EXCEPT !.pc = "resolved", !.result = url]

\* aiAdapter.ts:178-181: the catch block logs and rethrows.
Rejected(g, error) == [g EXCEPT !.pc = "rejected", !.error = error]

ProviderError == <<"provider error">>

\* aiAdapter.ts:176 and part_002:184
NoImageData(build) ==
  IF build = "part_002"
    THEN <<"No image data found in model response. Please check if the selected model supports image generation.">>
    ELSE <<"No image data found in model response.">>

\* What generateImages may answer: an exception, a response without image
\* bytes, a response with bytes.
ImagenResponses == {"throws", "none", "bytes"}

\* aiAdapter.ts:132-139 / part_002:132-140: generateImages settles.  Without
\* bytes aiAdapter.ts goes on to the generateContent request, part_002 throws.
StepImagen(g, response) ==
  LET seen == [g EXCEPT !.imagen = response]
  IN  IF response = "throws" THEN Rejected(seen, ProviderError)
      ELSE IF response = "bytes"
        THEN Resolved(seen, DataUrl("image/jpeg", "imagenBytes"))
      ELSE IF g.build = "part_002"
        THEN Rejected(seen, <<"Imagen model did not return image bytes.">>)
      ELSE [seen EXCEPT !.pc = "content",
                        !.requests = Append(@, "generateContent")]

\* The content parts of a generateContent response.
ResponseText(text) == [text |-> text, mimeType |-> "", data |-> ""]

ResponseImage(mimeType, data) == [text |-> <<>>, mimeType |-> mimeType, data |-> data]

ResponseParts ==
  {ResponseText(<<>>),
   ResponseText(<<"Here is a picture of it">>),
   ResponseText(<<"Sorry, ", "I CANNOT GENERATE IMAGES", " with this model">>),
   ResponseText(<<"I am ", "unable to generate", " that">>),
   ResponseImage("image/png", "pngBytes"),
   ResponseImage("image/webp", "webpBytes"),
   ResponseImage("image/png", "")}

\* Parts of the first candidate of one response, at most.
MaxParts == 2

RECURSIVE PartLists(_)
PartLists(n) ==
  IF n = 0 THEN {<<>>}
  ELSE LET shorter == PartLists(n - 1)
       IN  shorter \cup {Append(l, part) :
                           l \in {x \in shorter : Len(x) = n - 1},
                           part \in ResponseParts}

\* What generateContent may answer: an exception, no candidates, a first
\* candidate without content, or a first candidate with content parts.
ContentResponses ==
  {[kind |-> k, parts |-> <<>>] : k \in {"throws", "noCandidates", "noContent"}}
    \cup {[kind |-> "parts", parts |-> l] : l \in PartLists(MaxParts)}

\* part.inlineData && part.inlineData.data
HasInlineData(part) == part.data # ""

\* aiAdapter.ts:166-173 / part_002:175-182: the error for a first part with text.
TextError(build, modelName, text) ==
  IF build = "part_002"
    THEN IF \/ Includes(ToLowerCase(text), "cannot generate images")
            \/ Includes(ToLowerCase(text), "unable to generate")
           THEN <<"Model '">> \o modelName
                  \o <<"' declined image generation. Response: ">> \o text
           ELSE <<"Model returned text instead of image: ">> \o text \o <<"...">>
    ELSE IF Includes(ToLowerCase(text), "cannot generate images")
           THEN <<"This model (">> \o modelName
                  \o <<") does not support image generation. Please select 'gemini-2.5-flash-image' or an Imagen model in Admin settings.">>
           ELSE <<"Model returned text instead of image: ">> \o text \o <<"...">>

\* Mutant of ResolveParts: a text in the first part is looked at first.
ResolvePartsTextFirst(g, parts) ==
  LET images == {i \in DOMAIN parts : HasInlineData(parts[i])}
      first == CHOOSE i \in images : \A j \in images : i <= j
  IN  IF parts # <<>> /\ parts[1].text # <<>>
        THEN Rejected(g, TextError(g.build, g.modelName, parts[1].text))
      ELSE IF images # {}
        THEN Resolved(g, DataUrl(parts[first].mimeType, parts[first].data))
      ELSE Rejected(g, NoImageData(g.build))

\* aiAdapter.ts:156-176 / part_002:157-184 on the parts of the first candidate.
ResolveParts(g, parts) ==
  LET images == {i \in DOMAIN parts : HasInlineData(parts[i])}
      first == CHOOSE i \in images : \A j \in images : i <= j
  IN  IF images # {}
        THEN Resolved(g, DataUrl(parts[first].mimeType, parts[first].data))
      ELSE IF parts # <<>> /\ parts[1].text # <<>>
        THEN Rejected(g, TextError(g.build, g.modelName, parts[1].text))
      ELSE Rejected(g, NoImageData(g.build))

\* aiAdapter.ts:143-176 / part_002:144-184: generateContent settles.  On a
\* first candidate without content aiAdapter.ts reads .parts of undefined,
\* which throws; part_002 tests for it.
StepContent(g, response) ==
  LET seen == [g EXCEPT !.parts = response.parts,
                        !.hasParts = response.kind = "parts"]
  IN  IF response.kind = "throws" THEN Rejected(seen, ProviderError)
      ELSE IF response.kind = "noCandidates"
        THEN Rejected(seen, NoImageData(g.build))
      ELSE IF response.kind = "noContent"
        THEN IF g.build = "part_002" THEN Rejected(seen, NoImageData(g.build))
             ELSE Rejected(seen, <<"TypeError">>)
      ELSE ResolveParts(seen, response.parts)

\* ------------------------------------------------------------------ App
\* The locals of one handleSendMessage call.  snapshot is the messages state
\* its closure holds; gens counts its generateImage calls, writes its
\* addMessage calls for an assistant message, resultId is the row its last
\* such call returned.  stoppedAt is history: the number of fragments its
\* stream had delivered when the user last pressed Stop during it, -1 if never.
NoSend ==
  [pc |-> "idle", mode |-> "CHAT", file |-> FALSE, convId |-> NoConv,
   snapshot |-> <<>>, preview |-> NoUrl, uploadedUrl |-> NoUrl, userMsgId |-> 0,
   placeholderId |-> 0, resultId |-> 0, streamContent |-> <<>>, genFailed |-> FALSE,
   gens |-> 0, writes |-> 0, effLoad |-> "none", reload |-> "none",
   stoppedAt |-> -1]

Init ==
  /\ dbSeq = 0
  /\ dbConvs = <<>>
  /\ dbMessages = <<>>
  /\ currentConversationId = NoConv
  /\ messages = <<>>
  /\ isLoading = FALSE
  /\ send = [s \in Sends |-> NoSend]
  /\ stream = [s \in Sends |-> NoStream]
  /\ imageCall = NoImageCall
  /\ faults = 0
  /\ dbProviders = <<>>
  /\ serviceCall = NoServiceCall
  /\ session = TRUE
  /\ loads = {}
  /\ deletion = NoDeletion
  /\ gestures = 0

\* A request settles: with success, or with one more failure.
Settles(ok) ==
  IF ok THEN faults' = faults ELSE faults < MaxFaults /\ faults' = faults + 1

Put(s, r) == send' = [send EXCEPT ![s] = r]

\* Mutant of SetContent: the buffer is appended to the content shown.
SetContentAppends(list, id, content) ==
  [i \in DOMAIN list |->
     IF list[i].id = id THEN [list[i] EXCEPT !.content = @ \o content] ELSE list[i]]

\* prev.map(m => m.id === id ? { ...m, content } : m)
SetContent(list, id, content) ==
  [i \in DOMAIN list |->
     IF list[i].id = id THEN [list[i] EXCEPT !.content = content] ELSE list[i]]

\* prev.map(m => m.id === id ? msg : m)
Replace(list, id, msg) ==
  [i \in DOMAIN list |-> IF list[i].id = id THEN msg ELSE list[i]]

\* MessageItem.tsx:371 (InputArea.handleSubmit): nothing is sent while the
\* isLoading prop is set.
CanSubmit == ~isLoading

\* App.tsx:211-231: the upload is awaited only when a file is attached.
AfterConversation(file) == IF file THEN "uploading" ELSE "persisting"

\* Mutant of StartSend: a conversation is created for every send.
StartSendAlwaysCreates(s, mode, file, preview) ==
  /\ UNCHANGED faults
  /\ session
  /\ send[s].pc = "idle"
  /\ \A t \in Sends : t < s => send[t].pc # "idle"
  /\ CanSubmit
  /\ Put(s, [NoSend EXCEPT
         !.pc = "creating",
         !.mode = mode, !.file = file,
         !.preview = IF preview THEN PreviewUrl ELSE NoUrl,
         !.snapshot = messages])
  /\ UNCHANGED <<dbVars, currentConversationId, imageCall, svcVars, navVars, messages, isLoading, stream>>

\* App.tsx:191-209: the user submits; handleSendMessage runs to its first await
\* (it returns at once without a signed-in user, App.tsx:192).
\* Its closure holds the messages and currentConversationId of this render.
\* preview tells whether InputArea's FileReader has delivered the preview
\* (MessageItem.tsx:356-374): the file is set at once, the preview on load.
StartSend(s, mode, file, preview) ==
  /\ UNCHANGED faults
  /\ session
  /\ send[s].pc = "idle"
  /\ \A t \in Sends : t < s => send[t].pc # "idle"
  /\ CanSubmit
  /\ Put(s, [NoSend EXCEPT
         !.pc = IF currentConversationId = NoConv THEN "creating"
                ELSE AfterConversation(file),
         !.mode = mode, !.file = file,
         !.preview = IF preview THEN PreviewUrl ELSE NoUrl,
         !.convId = currentConversationId,
         !.snapshot = messages])
  /\ UNCHANGED <<dbVars, currentConversationId, imageCall, svcVars, navVars, messages, isLoading, stream>>

\* App.tsx:205-208: createConversation settles.  Selecting the new
\* conversation runs the effect of App.tsx:99-105, which starts loadMessages.
CreateConversationDone(s, ok) ==
  /\ Settles(ok)
  /\ send[s].pc = "creating"
  /\ IF ok
       THEN /\ CreateConversation(UserText)
            /\ currentConversationId' = dbSeq + 1
            /\ Put(s, [send[s] EXCEPT !.pc = AfterConversation(send[s].file),
                                      !.convId = dbSeq + 1,
                                      !.effLoad = "pending"])
            /\ UNCHANGED dbMessages
       ELSE /\ Put(s, [send[s] EXCEPT !.pc = "rejected"])
            /\ UNCHANGED <<dbVars, currentConversationId>>
  /\ UNCHANGED <<messages, isLoading, stream, imageCall, svcVars, navVars>>

\* App.tsx:213-231: the upload settles; on failure uploadedUrl is the
\* attachmentPreview argument.
UploadDone(s, ok) ==
  /\ Settles(ok)
  /\ send[s].pc = "uploading"
  /\ Put(s, [send[s] EXCEPT !.pc = "persisting",
                            !.uploadedUrl = IF ok THEN PublicUrl ELSE send[s].preview])
  /\ UNCHANGED <<dbVars, currentConversationId, imageCall, svcVars, navVars, messages, isLoading, stream>>

UserMessage(s) ==
  NewMessage(send[s].convId, "user", UserText, NoUrl,
             IF send[s].uploadedUrl # NoUrl THEN <<send[s].uploadedUrl>> ELSE <<>>)

\* App.tsx:292-298
OptimisticMsg(s) ==
  [id |-> LocalId(s), conversation_id |-> send[s].convId, role |-> "assistant",
   content |-> <<>>, image_url |-> NoUrl, attachments |-> <<>>]

\* App.tsx:234-264 and 289-305: addMessage of the user turn settles; the turn
\* is appended, the indicator set, and the mode's generation started: the
\* image placeholder's addMessage, or the optimistic message and chatStream.
UserMessageDone(s, ok) ==
  /\ Settles(ok)
  /\ send[s].pc = "persisting"
  /\ IF ok
       THEN LET userMsg == Row(dbSeq + 1, UserMessage(s))
            IN  /\ AddMessage(UserMessage(s))
                /\ isLoading' = TRUE
                /\ IF send[s].mode = "IMAGE"
                     THEN /\ messages' = Append(messages, userMsg)
                          /\ Put(s, [send[s] EXCEPT !.pc = "img_placeholder",
                                                    !.userMsgId = userMsg.id,
                                                    !.writes = @ + 1])
                          /\ UNCHANGED stream
                     ELSE /\ messages' = messages \o <<userMsg, OptimisticMsg(s)>>
                          /\ Put(s, [send[s] EXCEPT !.pc = "chat",
                                                    !.userMsgId = userMsg.id])
                          /\ stream' = [stream EXCEPT ![s] =
                                          Invoked(Append(send[s].snapshot, userMsg),
                                                  send[s].preview)]
       ELSE /\ Put(s, [send[s] EXCEPT !.pc = "rejected"])
            /\ UNCHANGED <<dbVars, messages, isLoading, stream>>
  /\ UNCHANGED <<currentConversationId, imageCall, svcVars, navVars>>

\* ---------------------------------------------------------- image mode
\* The catch block of App.tsx:276-283 starts the failure message's addMessage.
ToFailureMessage(s, generationFailed) ==
  Put(s, [send[s] EXCEPT !.pc = "img_failmsg",
                         !.genFailed = generationFailed,
                         !.writes = @ + 1])

\* Mutant of ImagePlaceholderDone: the placeholder is merely local, made
\* like the chat placeholder, and generateImage is invoked at once.
ImagePlaceholderLocal(s, ok) ==
  /\ send[s].pc = "img_placeholder"
  /\ messages' = Append(messages,
                        [OptimisticMsg(s) EXCEPT !.content = GeneratingText])
  /\ Put(s, [send[s] EXCEPT !.pc = "img_generating",
                            !.placeholderId = LocalId(s),
                            !.gens = @ + 1])
  /\ UNCHANGED <<dbVars, currentConversationId, imageCall, svcVars, navVars, isLoading, stream, faults>>

\* Mutant of ImagePlaceholderDone: chatStream is invoked next to generateImage.
ImagePlaceholderBoth(s, ok) ==
  /\ Settles(ok)
  /\ send[s].pc = "img_placeholder"
  /\ IF ok
       THEN LET msg == NewMessage(send[s].convId, "assistant", GeneratingText, NoUrl, <<>>)
            IN  /\ AddMessage(msg)
                /\ messages' = Append(messages, Row(dbSeq + 1, msg))
                /\ Put(s, [send[s] EXCEPT !.pc = "img_generating",
                                          !.placeholderId = dbSeq + 1,
                                          !.gens = @ + 1])
                /\ stream' = [stream EXCEPT ![s] = [NoStream EXCEPT !.pc = "returned"]]
       ELSE /\ ToFailureMessage(s, FALSE)
            /\ UNCHANGED <<dbVars, messages, stream>>
  /\ UNCHANGED <<currentConversationId, imageCall, svcVars, navVars, isLoading>>

\* App.tsx:259-266: the placeholder's addMessage settles; the placeholder is
\* appended and generateImage invoked.
ImagePlaceholderDone(s, ok) ==
  /\ Settles(ok)
  /\ send[s].pc = "img_placeholder"
  /\ IF ok
       THEN LET msg == NewMessage(send[s].convId, "assistant", GeneratingText, NoUrl, <<>>)
            IN  /\ AddMessage(msg)
                /\ messages' = Append(messages, Row(dbSeq + 1, msg))
                /\ Put(s, [send[s] EXCEPT !.pc = "img_generating",
                                          !.placeholderId = dbSeq + 1,
                                          !.gens = @ + 1])
       ELSE /\ ToFailureMessage(s, FALSE)
            /\ UNCHANGED <<dbVars, messages>>
  /\ UNCHANGED <<currentConversationId, imageCall, svcVars, navVars, isLoading, stream>>

\* Mutant of GenerateImageDone: a failed generation is attempted once more.
GenerateImageRetries(s, ok) ==
  /\ Settles(ok)
  /\ send[s].pc = "img_generating"
  /\ IF ok
       THEN Put(s, [send[s] EXCEPT !.pc = "img_result", !.writes = @ + 1])
       ELSE IF send[s].gens < 2
         THEN Put(s, [send[s] EXCEPT !.gens = @ + 1])
         ELSE ToFailureMessage(s, TRUE)
  /\ UNCHANGED <<dbVars, currentConversationId, imageCall, svcVars, navVars, messages, isLoading, stream>>

\* App.tsx:266-273: generateImage settles; the image message's addMessage starts.
GenerateImageDone(s, ok) ==
  /\ Settles(ok)
  /\ send[s].pc = "img_generating"
  /\ IF ok
       THEN Put(s, [send[s] EXCEPT !.pc = "img_result", !.writes = @ + 1])
       ELSE ToFailureMessage(s, TRUE)
  /\ UNCHANGED <<dbVars, currentConversationId, imageCall, svcVars, navVars, messages, isLoading, stream>>

\* App.tsx:268-274 and 284-286: the image message's addMessage settles; it
\* replaces the placeholder in the transcript and the indicator is cleared.
ImageResultDone(s, ok) ==
  /\ Settles(ok)
  /\ send[s].pc = "img_result"
  /\ IF ok
       THEN LET msg == NewMessage(send[s].convId, "assistant",
                                  ImageCaption \o UserText, ImageUrl, <<>>)
                imgMsg == Row(dbSeq + 1, msg)
            IN  /\ AddMessage(msg)
                /\ messages' = Replace(messages, send[s].placeholderId, imgMsg)
                /\ isLoading' = FALSE
                /\ Put(s, [send[s] EXCEPT !.pc = "done", !.resultId = dbSeq + 1])
       ELSE /\ ToFailureMessage(s, FALSE)
            /\ UNCHANGED <<dbVars, messages, isLoading>>
  /\ UNCHANGED <<currentConversationId, imageCall, svcVars, navVars, stream>>

\* App.tsx:278-286: the failure message's addMessage settles; loadMessages is
\* started (not awaited) and the indicator cleared.  When it fails the finally
\* block still clears the indicator and handleSendMessage rejects.
ImageFailureDone(s, ok) ==
  /\ Settles(ok)
  /\ send[s].pc = "img_failmsg"
  /\ IF ok
       THEN /\ AddMessage(NewMessage(send[s].convId, "assistant",
                                     FailedText \o <<"err">>, NoUrl, <<>>))
            /\ Put(s, [send[s] EXCEPT !.pc = "done", !.reload = "pending"])
       ELSE /\ Put(s, [send[s] EXCEPT !.pc = "rejected"])
            /\ UNCHANGED dbVars
  /\ isLoading' = FALSE
  /\ UNCHANGED <<currentConversationId, imageCall, svcVars, navVars, messages, stream>>

\* ----------------------------------------------------------- chat mode
\* Mutant of AppOnChunk: the buffer is shown by every local placeholder.
AppOnChunkEveryPlaceholder(s, chunk) ==
  LET content == send[s].streamContent \o <<chunk>>
  IN  /\ Put(s, [send[s] EXCEPT !.streamContent = content])
      /\ messages' = [i \in DOMAIN messages |->
                        IF messages[i].id < 0
                          THEN [messages[i] EXCEPT !.content = content]
                          ELSE messages[i]]
      /\ UNCHANGED isLoading

\* Mutant of AppOnChunk: the placeholder shows the newest fragment only.
AppOnChunkDelta(s, chunk) ==
  /\ Put(s, [send[s] EXCEPT !.streamContent = @ \o <<chunk>>])
  /\ messages' = SetContent(messages, LocalId(s), <<chunk>>)
  /\ UNCHANGED isLoading

\* App.tsx:308-313
AppOnChunk(s, chunk) ==
  LET content == send[s].streamContent \o <<chunk>>
  IN  /\ Put(s, [send[s] EXCEPT !.streamContent = content])
      /\ messages' = SetContent(messages, LocalId(s), content)
      /\ UNCHANGED isLoading

\* App.tsx:314-319: the async callback runs to its await of addMessage.
AppOnComplete(s) ==
  /\ Put(s, [send[s] EXCEPT !.pc = "completing", !.writes = @ + 1])
  /\ UNCHANGED <<messages, isLoading>>

\* Mutant of AppOnError: the annotation replaces the text streamed so far.
AppOnErrorNoteOnly(s) ==
  /\ isLoading' = FALSE
  /\ messages' = SetContent(messages, LocalId(s), ErrorNote)
  /\ Put(s, [send[s] EXCEPT !.pc = "done"])

\* App.tsx:323-329
AppOnError(s) ==
  /\ isLoading' = FALSE
  /\ messages' = SetContent(messages, LocalId(s),
                            send[s].streamContent \o ErrorNote)
  /\ Put(s, [send[s] EXCEPT !.pc = "done"])

\* A step of chatStream for send s, with the callback it invokes.  The
\* callbacks handleSendMessage passes never throw (onComplete is an async
\* function), so a step invokes at most one.
ChatStep(s, d) ==
  LET calls == NewCalls(stream[s], d)
  IN  /\ stream' = [stream EXCEPT ![s] = d]
      /\ IF calls = <<>> THEN UNCHANGED <<send, messages, isLoading>>
         ELSE IF calls[1].cb = "onChunk" THEN AppOnChunk(s, calls[1].arg)
         ELSE IF calls[1].cb = "onComplete" THEN AppOnComplete(s)
         ELSE AppOnError(s)
      /\ UNCHANGED <<dbVars, currentConversationId, imageCall, svcVars, navVars>>

\* Fragments delivered so far, over all streams.
RECURSIVE SumLen(_)
SumLen(S) ==
  IF S = {} THEN 0
  ELSE LET s == CHOOSE x \in S : TRUE
       IN  Len(stream[s].emitted) + SumLen(S \ {s})

Delivered == SumLen(Sends)

ChatCompose(s) ==
  /\ UNCHANGED faults
  /\ stream[s].pc = "compose"
  /\ \E reachable \in SUBSET HttpUrls :
       ChatStep(s, StepCompose(stream[s], reachable, FALSE))

ChatOpen(s, ok) ==
  /\ Settles(ok)
  /\ stream[s].pc = "open"
  /\ ChatStep(s, StepOpen(stream[s], ok, FALSE))

ChatFragment(s, text) ==
  /\ UNCHANGED faults
  /\ stream[s].pc = "stream"
  /\ Delivered < MaxFrags
  /\ ChatStep(s, StepFragment(stream[s], text, FALSE, FALSE))

ChatStreamError(s) ==
  /\ stream[s].pc = "stream"
  /\ Settles(FALSE)
  /\ ChatStep(s, StepStreamError(stream[s], FALSE))

ChatStreamEnd(s) ==
  /\ UNCHANGED faults
  /\ stream[s].pc = "stream"
  /\ ChatStep(s, StepEnd(stream[s], FALSE, FALSE))

\* App.tsx:315-321: the assistant message's addMessage settles; loadMessages
\* is started (not awaited) and the indicator cleared.  When it fails the
\* async callback rejects there.
CompletionWriteDone(s, ok) ==
  /\ Settles(ok)
  /\ send[s].pc = "completing"
  /\ IF ok
       THEN /\ AddMessage(NewMessage(send[s].convId, "assistant",
                                     send[s].streamContent, NoUrl, <<>>))
            /\ isLoading' = FALSE
            /\ Put(s, [send[s] EXCEPT !.pc = "done", !.reload = "pending",
                                      !.resultId = dbSeq + 1])
       ELSE /\ Put(s, [send[s] EXCEPT !.pc = "rejected"])
            /\ UNCHANGED <<dbVars, isLoading>>
  /\ UNCHANGED <<currentConversationId, imageCall, svcVars, navVars, messages, stream>>

\* ------------------------------------------------------------ loadMessages
\* App.tsx:131-138, started by the effect of App.tsx:99-105.
EffectLoadDone(s, ok) ==
  /\ Settles(ok)
  /\ send[s].effLoad = "pending"
  /\ messages' = IF ok THEN GetMessages(send[s].convId) ELSE messages
  /\ Put(s, [send[s] EXCEPT !.effLoad = IF ok THEN "done" ELSE "failed"])
  /\ UNCHANGED <<dbVars, currentConversationId, imageCall, svcVars, navVars, isLoading, stream>>

\* Mutant of ReloadDone: a failed load empties the transcript.
ReloadClearsOnFailure(s, ok) ==
  /\ Settles(ok)
  /\ send[s].reload = "pending"
  /\ messages' = IF ok THEN GetMessages(send[s].convId) ELSE <<>>
  /\ Put(s, [send[s] EXCEPT !.reload = IF ok THEN "done" ELSE "failed"])
  /\ UNCHANGED <<dbVars, currentConversationId, imageCall, svcVars, navVars, isLoading, stream>>

\* Mutant of ReloadDone: the loaded rows are merged under the messages that
\* are not in the store.
ReloadMerges(s, ok) ==
  /\ Settles(ok)
  /\ send[s].reload = "pending"
  /\ messages' = IF ok
                   THEN GetMessages(send[s].convId)
                          \o SelectSeq(messages, LAMBDA m : m.id < 0)
                   ELSE messages
  /\ Put(s, [send[s] EXCEPT !.reload = IF ok THEN "done" ELSE "failed"])
  /\ UNCHANGED <<dbVars, currentConversationId, imageCall, svcVars, navVars, isLoading, stream>>

\* App.tsx:131-138, started by App.tsx:283 or App.tsx:320.
ReloadDone(s, ok) ==
  /\ Settles(ok)
  /\ send[s].reload = "pending"
  /\ messages' = IF ok THEN GetMessages(send[s].convId) ELSE messages
  /\ Put(s, [send[s] EXCEPT !.reload = IF ok THEN "done" ELSE "failed"])
  /\ UNCHANGED <<dbVars, currentConversationId, imageCall, svcVars, navVars, isLoading, stream>>

\* A chatStream call that has not settled.
Streaming(s) == stream[s].pc \in {"compose", "open", "stream"}

\* Mutant of Stop: the streams in flight are aborted as well.
StopAborts ==
  /\ isLoading
  /\ isLoading' = FALSE
  /\ send' = [s \in Sends |->
                IF Streaming(s)
                  THEN [send[s] EXCEPT !.pc = "done",
                                       !.stoppedAt = Len(stream[s].emitted)]
                  ELSE send[s]]
  /\ stream' = [s \in Sends |->
                  IF Streaming(s) THEN [stream[s] EXCEPT !.pc = "returned"]
                  ELSE stream[s]]
  /\ UNCHANGED <<dbVars, currentConversationId, imageCall, svcVars, navVars, messages, faults>>

\* App.tsx:450-452, the button of MessageItem.tsx:476-482: setIsLoading(false)
\* and nothing else.
Stop ==
  /\ isLoading
  /\ isLoading' = FALSE
  /\ send' = [s \in Sends |->
                IF Streaming(s)
                  THEN [send[s] EXCEPT !.stoppedAt = Len(stream[s].emitted)]
                  ELSE send[s]]
  /\ UNCHANGED <<dbVars, currentConversationId, imageCall, svcVars, navVars, messages, stream, faults>>

\* Every step but the user's submit and the upload.
Progress ==
  \/ \E s \in Sends, ok \in BOOLEAN : CreateConversationDone(s, ok)
  \/ \E s \in Sends, ok \in BOOLEAN : UserMessageDone(s, ok)
  \/ \E s \in Sends, ok \in BOOLEAN : ImagePlaceholderDone(s, ok)
  \/ \E s \in Sends, ok \in BOOLEAN : GenerateImageDone(s, ok)
  \/ \E s \in Sends, ok \in BOOLEAN : ImageResultDone(s, ok)
  \/ \E s \in Sends, ok \in BOOLEAN : ImageFailureDone(s, ok)
  \/ \E s \in Sends : ChatCompose(s)
  \/ \E s \in Sends, ok \in BOOLEAN : ChatOpen(s, ok)
  \/ \E s \in Sends, text \in FragmentTexts : ChatFragment(s, text)
  \/ \E s \in Sends : ChatStreamError(s)
  \/ \E s \in Sends : ChatStreamEnd(s)
  \/ \E s \in Sends, ok \in BOOLEAN : CompletionWriteDone(s, ok)
  \/ \E s \in Sends, ok \in BOOLEAN : EffectLoadDone(s, ok)
  \/ \E s \in Sends, ok \in BOOLEAN : ReloadDone(s, ok)
  \/ Stop

\* One send, with or without an attached file.
Next ==
  \/ \E mode \in Modes, file, preview \in BOOLEAN :
       StartSend(1, mode, file, preview)
  \/ \E ok \in BOOLEAN : UploadDone(1, ok)
  \/ Progress

Spec == Init /\ [][Next]_vars

\* Two sends without attached files: the user submits again whenever
\* InputArea lets them.
\* Budgets of the two-send specification: fragments delivered and requests
\* failed in one behaviour, over both sends.
MaxOverlapFrags == 1
MaxOverlapFaults == 1

WithinOverlapBounds ==
  faults <= MaxOverlapFaults /\ Delivered <= MaxOverlapFrags

NextOverlap ==
  \/ \E s \in Sends, mode \in Modes : StartSend(s, mode, FALSE, FALSE)
  \/ \E s \in Sends, ok \in BOOLEAN :
       CreateConversationDone(s, ok) /\ WithinOverlapBounds'
  \/ \E s \in Sends, ok \in BOOLEAN :
       UserMessageDone(s, ok) /\ WithinOverlapBounds'
  \/ \E s \in Sends, ok \in BOOLEAN :
       ImagePlaceholderDone(s, ok) /\ WithinOverlapBounds'
  \/ \E s \in Sends, ok \in BOOLEAN :
       GenerateImageDone(s, ok) /\ WithinOverlapBounds'
  \/ \E s \in Sends, ok \in BOOLEAN :
       ImageResultDone(s, ok) /\ WithinOverlapBounds'
  \/ \E s \in Sends, ok \in BOOLEAN :
       ImageFailureDone(s, ok) /\ WithinOverlapBounds'
  \/ \E s \in Sends :
       ChatCompose(s) /\ WithinOverlapBounds'
  \/ \E s \in Sends, ok \in BOOLEAN :
       ChatOpen(s, ok) /\ WithinOverlapBounds'
  \/ \E s \in Sends, text \in FragmentTexts :
       ChatFragment(s, text) /\ WithinOverlapBounds'
  \/ \E s \in Sends :
       ChatStreamError(s) /\ WithinOverlapBounds'
  \/ \E s \in Sends :
       ChatStreamEnd(s) /\ WithinOverlapBounds'
  \/ \E s \in Sends, ok \in BOOLEAN :
       CompletionWriteDone(s, ok) /\ WithinOverlapBounds'
  \/ \E s \in Sends, ok \in BOOLEAN :
       EffectLoadDone(s, ok) /\ WithinOverlapBounds'
  \/ \E s \in Sends, ok \in BOOLEAN :
       ReloadDone(s, ok) /\ WithinOverlapBounds'
  \/ Stop

SpecOverlap == Init /\ [][NextOverlap]_vars

\* ------------------------------------------- chatStream under any caller
\* The lists a caller may pass: up to MaxMsgs messages of any role, each
\* with a text of its own; attachments are recorded on user messages
\* (part_000:11).
Roles == {"user", "assistant", "system"}

Ordinal == <<"1st", "2nd", "3rd", "4th">>

AttachmentLists == {<<>>, <<PublicUrl, PreviewUrl>>, <<BlobUrl>>}

MessageKinds ==
  {k \in [role : Roles, atts : AttachmentLists] :
     k.atts # <<>> => k.role = "user"}

CallerMessage(role, atts, n) ==
  [id |-> n, conversation_id |-> 1, role |-> role,
   content |-> <<"Hello", Ordinal[n]>>,
   image_url |-> NoUrl, attachments |-> atts]

RECURSIVE ListsOf(_)
ListsOf(n) ==
  IF n = 0 THEN {<<>>}
  ELSE LET shorter == ListsOf(n - 1)
       IN  shorter \cup {Append(l, CallerMessage(k.role, k.atts, n)) :
                           l \in {x \in shorter : Len(x) = n - 1},
                           k \in MessageKinds}

\* The just-added attachment a caller may pass: none, an inline reference,
\* or a reference without a comma.
CallerAttachments == {NoUrl, PreviewUrl, PublicUrl}

MsgLists == ListsOf(MaxMsgs)

StreamStep(d) ==
  /\ stream' = [stream EXCEPT ![1] = d]
  /\ UNCHANGED <<dbVars, currentConversationId, imageCall, svcVars, navVars, messages, isLoading, send, faults>>

\* A caller invokes chatStream with callbacks of its own, each of which may
\* return or throw.
CallChatStream(msgs, attachment) ==
  /\ stream[1].pc = "none"
  /\ StreamStep(Invoked(msgs, attachment))

StreamCompose(reachable, errorThrows) ==
  /\ stream[1].pc = "compose"
  /\ StreamStep(StepCompose(stream[1], reachable, errorThrows))

StreamOpen(ok, errorThrows) ==
  /\ stream[1].pc = "open"
  /\ StreamStep(StepOpen(stream[1], ok, errorThrows))

StreamFragment(text, chunkThrows, errorThrows) ==
  /\ stream[1].pc = "stream"
  /\ Len(stream[1].emitted) < MaxFrags
  /\ StreamStep(StepFragment(stream[1], text, chunkThrows, errorThrows))

StreamError(errorThrows) ==
  /\ stream[1].pc = "stream"
  /\ StreamStep(StepStreamError(stream[1], errorThrows))

StreamEnd(completeThrows, errorThrows) ==
  /\ stream[1].pc = "stream"
  /\ StreamStep(StepEnd(stream[1], completeThrows, errorThrows))

NextStream ==
  \/ \E msgs \in MsgLists, attachment \in CallerAttachments :
       CallChatStream(msgs, attachment)
  \/ \E reachable \in SUBSET HttpUrls, e \in BOOLEAN : StreamCompose(reachable, e)
  \/ \E ok \in BOOLEAN, e \in BOOLEAN : StreamOpen(ok, e)
  \/ \E text \in FragmentTexts, c \in BOOLEAN, e \in BOOLEAN : StreamFragment(text, c, e)
  \/ \E e \in BOOLEAN : StreamError(e)
  \/ \E c \in BOOLEAN, e \in BOOLEAN : StreamEnd(c, e)

SpecStream == Init /\ [][NextStream]_vars

\* ----------------------------------------- generateImage under any caller
ImageStep(d) ==
  /\ imageCall' = d
  /\ UNCHANGED <<dbVars, currentConversationId, messages, isLoading, send,
                 stream, faults, svcVars, navVars>>

GenerateImage(build, modelName) ==
  /\ imageCall.pc = "none"
  /\ ImageStep(InvokedImage(build, modelName))

ImagenResponds(response) ==
  /\ imageCall.pc = "imagen"
  /\ ImageStep(StepImagen(imageCall, response))

ContentResponds(response) ==
  /\ imageCall.pc = "content"
  /\ ImageStep(StepContent(imageCall, response))

NextImage ==
  \/ \E build \in Builds, modelName \in ModelNames : GenerateImage(build, modelName)
  \/ \E response \in ImagenResponses : ImagenResponds(response)
  \/ \E response \in ContentResponses : ContentResponds(response)

SpecImage == Init /\ [][NextImage]_vars

\* ------------------------------------------- chatService under any caller
\* Rows the store may come to hold in the chatService specification.
MaxStoreRows == 3

Operations ==
  {"getConversations", "createConversation", "updateConversationTitle",
   "deleteConversation", "getMessages", "addMessage", "deleteMessage",
   "getProviders", "saveProvider", "deleteProvider"}

\* Identifiers a caller may pass: a UUID, a temporary identifier ('temp-...'),
\* any other text, or none.
IdKinds == {"uuid", "temp", "text", "none"}

Uuid(n) == [kind |-> "uuid", id |-> n]

\* chatService.ts:7-10
isValidUUID(arg) == arg.kind = "uuid"

NoError == <<>>

\* The error object of the backend's n-th response to a call.
StoreError(n) == <<"PostgrestError", Ordinal[n]>>

\* The arguments a caller may pass to an operation.
ArgsOf(op) ==
  IF op \in {"getConversations", "createConversation", "getProviders"}
    THEN {[kind |-> "none", id |-> 0]}
  ELSE IF op = "addMessage" THEN {Uuid(c) : c \in DOMAIN dbConvs}
  ELSE IF op \in {"saveProvider", "deleteProvider"}
    THEN {Uuid(n) : n \in 1..MaxStoreRows}
           \cup {[kind |-> k, id |-> 0] : k \in IdKinds \ {"uuid"}}
  ELSE {Uuid(n) : n \in 1..MaxStoreRows}

Inserts(op, arg) ==
  \/ op \in {"createConversation", "addMessage"}
  \/ op = "saveProvider" /\ ~isValidUUID(arg)

\* chatService.ts:155: deleteProvider returns at once for an identifier that
\* is no UUID; every other operation starts with a backend request.
Invoke(op, arg) ==
  /\ serviceCall.pc \in {"idle", "returned", "rejected"}
  /\ Inserts(op, arg) => dbSeq < MaxStoreRows
  /\ serviceCall' =
       [NoServiceCall EXCEPT
          !.op = op, !.arg = arg, !.messagesBefore = dbMessages,
          !.pc = IF op = "deleteProvider" /\ ~isValidUUID(arg)
                   THEN "returned" ELSE "request",
          !.request = IF op = "deleteProvider" /\ ~isValidUUID(arg) THEN 0 ELSE 1]
  /\ UNCHANGED <<dbVars, dbProviders, appVars, navVars>>

Awaits(op, n) ==
  /\ serviceCall.op = op
  /\ serviceCall.pc = "request"
  /\ serviceCall.request = n

\* What the backend has reported to the call, with this response.
Heard(ok) ==
  Append(serviceCall.reported,
         IF ok THEN NoError ELSE StoreError(serviceCall.request))

\* `return data`
SvcReturn(ok, result) ==
  serviceCall' = [serviceCall EXCEPT !.pc = "returned", !.result = result,
                                     !.reported = Heard(ok)]

\* `if (error) throw error`
SvcThrow ==
  serviceCall' = [serviceCall EXCEPT !.pc = "rejected",
                                     !.error = StoreError(serviceCall.request),
                                     !.reported = Heard(FALSE)]

\* The call goes on to its next backend request.
SvcNext(ok) ==
  serviceCall' = [serviceCall EXCEPT !.request = @ + 1, !.reported = Heard(ok)]

\* .order('updated_at', { ascending: false })
RECURSIVE ByUpdatedDesc(_)
ByUpdatedDesc(ids) ==
  IF ids = {} THEN <<>>
  ELSE LET top == CHOOSE c \in ids :
                    \A d \in ids : dbConvs[d].updated_at <= dbConvs[c].updated_at
       IN  <<[id |-> top, title |-> dbConvs[top].title]>>
             \o ByUpdatedDesc(ids \ {top})

\* .order('created_at', { ascending: true })
RECURSIVE ByCreated(_)
ByCreated(ids) ==
  IF ids = {} THEN <<>>
  ELSE LET first == CHOOSE p \in ids : \A q \in ids : p <= q
       IN  <<[id |-> first, name |-> dbProviders[first].name]>>
             \o ByCreated(ids \ {first})

\* chatService.ts:14-23
GetConversationsDone(ok) ==
  /\ Awaits("getConversations", 1)
  /\ IF ok THEN SvcReturn(ok, ByUpdatedDesc(DOMAIN dbConvs)) ELSE SvcThrow
  /\ UNCHANGED <<dbVars, dbProviders, appVars, navVars>>

\* chatService.ts:25-34
CreateConversationSvcDone(ok) ==
  /\ Awaits("createConversation", 1)
  /\ IF ok
       THEN /\ CreateConversation(<<"New Chat">>)
            /\ SvcReturn(ok, <<[id |-> dbSeq + 1, title |-> <<"New Chat">>]>>)
       ELSE /\ SvcThrow
            /\ UNCHANGED <<dbSeq, dbConvs>>
  /\ UNCHANGED <<dbMessages, dbProviders, appVars, navVars>>

\* chatService.ts:36-42
UpdateConversationTitleDone(ok) ==
  /\ Awaits("updateConversationTitle", 1)
  /\ IF ok
       THEN /\ dbConvs' = [c \in DOMAIN dbConvs |->
                             IF c = serviceCall.arg.id
                               THEN [dbConvs[c] EXCEPT !.title = <<"Renamed">>]
                               ELSE dbConvs[c]]
            /\ SvcReturn(ok, <<>>)
       ELSE /\ SvcThrow
            /\ UNCHANGED dbConvs
  /\ UNCHANGED <<dbSeq, dbMessages, dbProviders, appVars, navVars>>

\* chatService.ts:46-47: the first delete step settles.
DeleteConversationMessagesDone(ok) ==
  /\ Awaits("deleteConversation", 1)
  /\ IF ok
       THEN /\ DeleteMessagesOf(serviceCall.arg.id)
            /\ SvcNext(ok)
       ELSE /\ SvcThrow
            /\ UNCHANGED dbMessages
  /\ UNCHANGED <<dbSeq, dbConvs, dbProviders, appVars, navVars>>

\* chatService.ts:49-53: the second delete step settles.
DeleteConversationRowDone(ok) ==
  /\ Awaits("deleteConversation", 2)
  /\ IF ok
       THEN /\ DeleteConversationRow(serviceCall.arg.id)
            /\ SvcReturn(ok, <<>>)
       ELSE /\ SvcThrow
            /\ UNCHANGED dbConvs
  /\ UNCHANGED <<dbSeq, dbMessages, dbProviders, appVars, navVars>>

\* chatService.ts:56-65
GetMessagesDone(ok) ==
  /\ Awaits("getMessages", 1)
  /\ IF ok THEN SvcReturn(ok, GetMessages(serviceCall.arg.id)) ELSE SvcThrow
  /\ UNCHANGED <<dbVars, dbProviders, appVars, navVars>>

\* chatService.ts:67-80: the insert settles.
AddMessageInsertDone(ok) ==
  /\ Awaits("addMessage", 1)
  /\ IF ok
       THEN LET msg == NewMessage(serviceCall.arg.id, "user", UserText, NoUrl, <<>>)
            IN  /\ dbSeq' = dbSeq + 1
                /\ dbMessages' = Append(dbMessages, Row(dbSeq + 1, msg))
                /\ serviceCall' = [serviceCall EXCEPT
                                     !.request = 2, !.reported = Heard(ok),
                                     !.result = <<Row(dbSeq + 1, msg)>>]
       ELSE /\ SvcThrow
            /\ UNCHANGED <<dbSeq, dbMessages>>
  /\ UNCHANGED <<dbConvs, dbProviders, appVars, navVars>>

\* chatService.ts:83-85: the update of the conversation's updated_at settles;
\* its response is not looked at and the inserted row is returned.
AddMessageBumpDone(ok) ==
  /\ Awaits("addMessage", 2)
  /\ dbConvs' = IF ok
                  THEN [c \in DOMAIN dbConvs |->
                          IF c = serviceCall.arg.id
                            THEN [dbConvs[c] EXCEPT !.updated_at = dbSeq]
                            ELSE dbConvs[c]]
                  ELSE dbConvs
  /\ SvcReturn(ok, serviceCall.result)
  /\ UNCHANGED <<dbSeq, dbMessages, dbProviders, appVars, navVars>>

\* chatService.ts:88-94
DeleteMessageDone(ok) ==
  /\ Awaits("deleteMessage", 1)
  /\ IF ok
       THEN /\ dbMessages' = SelectSeq(dbMessages,
                                       LAMBDA m : m.id # serviceCall.arg.id)
            /\ SvcReturn(ok, <<>>)
       ELSE /\ SvcThrow
            /\ UNCHANGED dbMessages
  /\ UNCHANGED <<dbSeq, dbConvs, dbProviders, appVars, navVars>>

\* chatService.ts:98-120: an error is logged and the empty list returned.
GetProvidersDone(ok) ==
  /\ Awaits("getProviders", 1)
  /\ SvcReturn(ok, IF ok THEN ByCreated(DOMAIN dbProviders) ELSE <<>>)
  /\ UNCHANGED <<dbVars, dbProviders, appVars, navVars>>

\* chatService.ts:122-151: an update for a UUID, an insert otherwise.
SaveProviderDone(ok) ==
  /\ Awaits("saveProvider", 1)
  /\ IF ok
       THEN /\ IF isValidUUID(serviceCall.arg)
                 THEN /\ dbProviders' =
                           [p \in DOMAIN dbProviders |->
                              IF p = serviceCall.arg.id
                                THEN [name |-> <<"Edited">>] ELSE dbProviders[p]]
                      /\ UNCHANGED dbSeq
                 ELSE /\ dbProviders' =
                           [p \in DOMAIN dbProviders \cup {dbSeq + 1} |->
                              IF p = dbSeq + 1
                                THEN [name |-> <<"Added">>] ELSE dbProviders[p]]
                      /\ dbSeq' = dbSeq + 1
            /\ SvcReturn(ok, <<>>)
       ELSE /\ SvcThrow
            /\ UNCHANGED <<dbSeq, dbProviders>>
  /\ UNCHANGED <<dbConvs, dbMessages, appVars, navVars>>

\* chatService.ts:157-158
DeleteProviderDone(ok) ==
  /\ Awaits("deleteProvider", 1)
  /\ IF ok
       THEN /\ dbProviders' = [p \in DOMAIN dbProviders \ {serviceCall.arg.id} |->
                                 dbProviders[p]]
            /\ SvcReturn(ok, <<>>)
       ELSE /\ SvcThrow
            /\ UNCHANGED dbProviders
  /\ UNCHANGED <<dbVars, appVars, navVars>>

NextService ==
  \/ \E op \in Operations : \E arg \in ArgsOf(op) : Invoke(op, arg)
  \/ \E ok \in BOOLEAN : GetConversationsDone(ok)
  \/ \E ok \in BOOLEAN : CreateConversationSvcDone(ok)
  \/ \E ok \in BOOLEAN : UpdateConversationTitleDone(ok)
  \/ \E ok \in BOOLEAN : DeleteConversationMessagesDone(ok)
  \/ \E ok \in BOOLEAN : DeleteConversationRowDone(ok)
  \/ \E ok \in BOOLEAN : GetMessagesDone(ok)
  \/ \E ok \in BOOLEAN : AddMessageInsertDone(ok)
  \/ \E ok \in BOOLEAN : AddMessageBumpDone(ok)
  \/ \E ok \in BOOLEAN : DeleteMessageDone(ok)
  \/ \E ok \in BOOLEAN : GetProvidersDone(ok)
  \/ \E ok \in BOOLEAN : SaveProviderDone(ok)
  \/ \E ok \in BOOLEAN : DeleteProviderDone(ok)

SpecService == Init /\ [][NextService]_vars

\* ------------------------------------------ one send and the sidebar
\* Budgets of the navigation specification: conversations in the store,
\* fragments delivered and requests failed in one behaviour.
MaxConvs == 2
MaxNavFrags == 1
MaxNavFaults == 1
MaxGestures == 2
MaxNavRows == 6

\* The user acts at the sidebar once more.
Gesture == gestures < MaxGestures /\ gestures' = gestures + 1

\* Every message row references a conversation row (the foreign key the
\* comment of chatService.ts:45 speaks of): an insert for a deleted
\* conversation is refused.
Referential ==
  \A i \in DOMAIN dbMessages : dbMessages[i].conversation_id \in DOMAIN dbConvs

WithinNavBounds ==
  /\ faults <= MaxNavFaults
  /\ Delivered <= MaxNavFrags
  /\ Cardinality(DOMAIN dbConvs) <= MaxConvs
  /\ dbSeq <= MaxNavRows
  /\ Referential

\* The effect of App.tsx:99-105 for a new value of currentConversationId.
SelectionEffect(id) ==
  IF id = NoConv
    THEN messages' = <<>> /\ UNCHANGED loads
    ELSE loads' = loads \cup {id} /\ UNCHANGED messages

\* App.tsx:140-153 (handleNewChat): createConversation settles; on success
\* the new conversation is selected.
NewChatDone(ok) ==
  /\ session
  /\ Gesture
  /\ Settles(ok)
  /\ IF ok
       THEN /\ CreateConversation(<<"New Chat">>)
            /\ currentConversationId' = dbSeq + 1
            /\ SelectionEffect(dbSeq + 1)
       ELSE UNCHANGED <<dbSeq, dbConvs, currentConversationId, messages, loads>>
  /\ UNCHANGED <<dbMessages, isLoading, send, stream, imageCall, svcVars,
                 session, deletion>>

\* App.tsx:355-362 (onSelectConversation): a conversation of the sidebar is
\* selected.
SelectConversation(id) ==
  /\ session
  /\ Gesture
  /\ id \in DOMAIN dbConvs
  /\ id # currentConversationId
  /\ currentConversationId' = id
  /\ SelectionEffect(id)
  /\ UNCHANGED <<dbVars, isLoading, send, stream, imageCall, faults, svcVars,
                 session, deletion>>

\* App.tsx:131-138: a loadMessages started by a selection settles.
NavLoadDone(id, ok) ==
  /\ Settles(ok)
  /\ id \in loads
  /\ loads' = loads \ {id}
  /\ messages' = IF ok THEN GetMessages(id) ELSE messages
  /\ UNCHANGED <<dbVars, currentConversationId, isLoading, send, stream,
                 imageCall, svcVars, session, deletion, gestures>>

\* App.tsx:164-166: handleDeleteConversation is called for a conversation of
\* the sidebar; its closure holds the currentConversationId of this render.
DeleteStart(id) ==
  /\ session
  /\ Gesture
  /\ deletion.pc = "none"
  /\ id \in DOMAIN dbConvs
  /\ deletion' = [pc |-> "messages", id |-> id,
                  wasCurrent |-> currentConversationId = id]
  /\ UNCHANGED <<dbVars, appVars, svcVars, session, loads>>

\* chatService.ts:46-47 inside App.tsx:166: the first delete step settles; an
\* error is caught and logged (App.tsx:172-174).
DeleteMessagesStepDone(ok) ==
  /\ Settles(ok)
  /\ deletion.pc = "messages"
  /\ IF ok
       THEN /\ DeleteMessagesOf(deletion.id)
            /\ deletion' = [deletion EXCEPT !.pc = "conversation"]
       ELSE /\ deletion' = NoDeletion
            /\ UNCHANGED dbMessages
  /\ UNCHANGED <<dbSeq, dbConvs, currentConversationId, messages, isLoading,
                 send, stream, imageCall, svcVars, session, loads, gestures>>

\* chatService.ts:49-53 and App.tsx:167-171: the second delete step settles;
\* on success a conversation that was the selected one is deselected and the
\* transcript emptied.
DeleteRowStepDone(ok) ==
  /\ Settles(ok)
  /\ deletion.pc = "conversation"
  /\ deletion' = NoDeletion
  /\ IF ok
       THEN /\ DeleteConversationRow(deletion.id)
            /\ IF deletion.wasCurrent
                 THEN currentConversationId' = NoConv /\ messages' = <<>>
                 ELSE UNCHANGED <<currentConversationId, messages>>
       ELSE UNCHANGED <<dbConvs, currentConversationId, messages>>
  /\ UNCHANGED <<dbSeq, dbMessages, isLoading, send, stream, imageCall,
                 svcVars, session, loads, gestures>>

\* App.tsx:187-189, 60-62 and 86-96: the user signs out; the auth listener
\* clears the session, whose effect empties the transcript and deselects.
SignOut ==
  /\ session
  /\ Gesture
  /\ session' = FALSE
  /\ messages' = <<>>
  /\ currentConversationId' = NoConv
  /\ UNCHANGED <<dbVars, isLoading, send, stream, imageCall, faults, svcVars,
                 loads, deletion>>

\* One send without an attached file, and the user at the sidebar meanwhile.
NextNavigate ==
  \/ \E mode \in Modes : StartSend(1, mode, FALSE, FALSE)
  \/ \E ok \in BOOLEAN : CreateConversationDone(1, ok) /\ WithinNavBounds'
  \/ \E ok \in BOOLEAN : UserMessageDone(1, ok) /\ WithinNavBounds'
  \/ \E ok \in BOOLEAN : ImagePlaceholderDone(1, ok) /\ WithinNavBounds'
  \/ \E ok \in BOOLEAN : GenerateImageDone(1, ok) /\ WithinNavBounds'
  \/ \E ok \in BOOLEAN : ImageResultDone(1, ok) /\ WithinNavBounds'
  \/ \E ok \in BOOLEAN : ImageFailureDone(1, ok) /\ WithinNavBounds'
  \/ ChatCompose(1) /\ WithinNavBounds'
  \/ \E ok \in BOOLEAN : ChatOpen(1, ok) /\ WithinNavBounds'
  \/ \E text \in FragmentTexts : ChatFragment(1, text) /\ WithinNavBounds'
  \/ ChatStreamError(1) /\ WithinNavBounds'
  \/ ChatStreamEnd(1) /\ WithinNavBounds'
  \/ \E ok \in BOOLEAN : CompletionWriteDone(1, ok) /\ WithinNavBounds'
  \/ \E ok \in BOOLEAN : EffectLoadDone(1, ok) /\ WithinNavBounds'
  \/ \E ok \in BOOLEAN : ReloadDone(1, ok) /\ WithinNavBounds'
  \/ \E ok \in BOOLEAN : NewChatDone(ok) /\ WithinNavBounds'
  \/ \E id \in 1..MaxNavRows : SelectConversation(id)
  \/ \E id \in 1..MaxNavRows, ok \in BOOLEAN : NavLoadDone(id, ok) /\ WithinNavBounds'
  \/ \E id \in 1..MaxNavRows : DeleteStart(id)
  \/ \E ok \in BOOLEAN : DeleteMessagesStepDone(ok) /\ WithinNavBounds'
  \/ \E ok \in BOOLEAN : DeleteRowStepDone(ok) /\ WithinNavBounds'
  \/ SignOut

SpecNavigate == Init /\ [][NextNavigate]_vars

\* ======================================================== the claims
Count(seq, ev) == Cardinality({i \in DOMAIN seq : seq[i] = ev})

Has(seq, ev) == \E i \in DOMAIN seq : seq[i] = ev

\* The arguments of the onChunk calls of a log, in call order.
ChunkArgs(log) ==
  LET chunks == SelectSeq(log, LAMBDA ev : ev.cb = "onChunk")
  IN  [i \in DOMAIN chunks |-> chunks[i].arg]

\* The texts of the fragments that carry text, in arrival order.
TextsOf(emitted) == SelectSeq(emitted, LAMBDA text : text # "")

Ended(c) == c.pc \in {"returned", "rejected"}

\* C1: over the lifetime of a chatStream call exactly one of onComplete and
\* onError is invoked, never both and never neither, whatever the list, the
\* provider and the callbacks do.
C1_ExactlyOneTerminal ==
  \A s \in Sends :
    LET terminals == Count(stream[s].log, OnComplete) + Count(stream[s].log, OnError)
    IN  /\ terminals <= 1
        /\ Ended(stream[s]) => terminals = 1

\* C2: onChunk is invoked exactly once, in arrival order, for every fragment
\* that carries text and never for one that carries none, and onComplete
\* only after the onChunk call of the last fragment.
C2_ChunksInArrivalOrder ==
  \A s \in Sends :
    LET c == stream[s]
    IN  /\ ChunkArgs(c.log) = TextsOf(c.emitted)
        /\ \A i, j \in DOMAIN c.log :
             i < j /\ c.log[i] = OnComplete => c.log[j].cb # "onChunk"
        /\ Has(c.log, OnComplete) => Ended(c)

C2_Witness ==
  /\ stream[1].emitted = <<"Hi", "", " there">>
  /\ stream[1].log = <<OnChunk("Hi"), OnChunk(" there"), OnComplete>>

\* C3: when chatStream fails, while composing, opening or part-way through the
\* fragments, onError is invoked exactly once and no callback follows it.
C3_ErrorOnceAndLast ==
  \A s \in Sends :
    LET c == stream[s]
    IN  /\ Count(c.log, OnError) <= 1
        /\ c.failed => Count(c.log, OnError) = 1
        /\ Has(c.log, OnError) => c.log[Len(c.log)] = OnError /\ Ended(c)

C3_Witness ==
  /\ stream[1].failed
  /\ stream[1].emitted = <<"Hi", " there">>
  /\ stream[1].log = <<OnChunk("Hi"), OnChunk(" there"), OnError>>

\* Nothing of the send is in flight any more: neither its handler nor a
\* load it started.
Settled(s) ==
  /\ send[s].pc \in {"idle", "done", "rejected"}
  /\ send[s].effLoad # "pending"
  /\ send[s].reload # "pending"

\* The rows of the send's conversation that hold an assistant message.
AssistantRows(s) ==
  {i \in DOMAIN dbMessages :
     /\ dbMessages[i].conversation_id = send[s].convId
     /\ dbMessages[i].role = "assistant"}

C5_OneWriteThenReload ==
  \A s \in Sends :
    send[s].mode = "CHAT" =>
      /\ send[s].writes = IF Has(stream[s].log, OnComplete) THEN 1 ELSE 0
      /\ Cardinality(AssistantRows(s)) = IF send[s].resultId # 0 THEN 1 ELSE 0
      /\ send[s].resultId # 0 => send[s].writes = 1 /\ send[s].reload # "none"
      /\ send[s].reload # "none" => send[s].resultId # 0
      /\ \A i \in DOMAIN dbMessages : dbMessages[i].id # LocalId(s)
      /\ send[s].reload = "done" =>
           \A i \in DOMAIN messages : messages[i].id # LocalId(s)

C5_Witness ==
  \E s \in Sends :
    /\ send[s].mode = "CHAT"
    /\ send[s].reload = "done"
    /\ \E i \in DOMAIN messages :
         messages[i].id = send[s].resultId /\ messages[i].content # <<>>

C7_IndicatorCleared == (\A s \in Sends : Settled(s)) => ~isLoading

GenerationFailed(s) == stream[s].failed \/ send[s].genFailed

\* An assistant message that carries an error explanation.
IsExplanation(m) ==
  /\ m.role = "assistant"
  /\ \/ /\ Len(m.content) >= Len(ErrorNote)
        /\ SubSeq(m.content, Len(m.content) - Len(ErrorNote) + 1, Len(m.content))
             = ErrorNote
     \/ /\ Len(m.content) >= Len(FailedText)
        /\ SubSeq(m.content, 1, Len(FailedText)) = FailedText

\* The transcript shows the send's user turn and, after it, an explanation.
Explained(s) ==
  \E i, j \in DOMAIN messages :
    /\ i < j
    /\ messages[i].id = send[s].userMsgId
    /\ IsExplanation(messages[j])

\* C8: a send whose generation call fails (and nothing else does) does not
\* come to rest without a terminal assistant message: the transcript shows
\* the user turn followed by an assistant message with the explanation.
C8_FailureExplained ==
  \A s \in Sends :
    GenerationFailed(s) /\ faults = 1 /\ Settled(s) => Explained(s)

InFlight(s) == send[s].pc \notin {"idle", "done", "rejected"}

\* C9: at most one orchestrated send is in flight at any time.
C9_AtMostOneInFlight == Cardinality({s \in Sends : InFlight(s)}) <= 1

\* The store holds the send's user turn and, after it, its placeholder.
PlaceholderStored(s) ==
  LET rows == GetMessages(send[s].convId)
  IN  \E i, j \in DOMAIN rows :
        /\ i < j
        /\ rows[i].id = send[s].userMsgId /\ rows[i].role = "user"
        /\ rows[j].id = send[s].placeholderId /\ rows[j].role = "assistant"
        /\ rows[j].content = GeneratingText

\* C10: in image mode the placeholder is in the store, after the user turn,
\* from the moment generateImage is invoked, and the step that invokes
\* generateImage appends that row to the visible transcript.
C10_PlaceholderBeforeGenerate ==
  /\ [](\A s \in Sends : send[s].gens >= 1 => PlaceholderStored(s))
  /\ [][\A s \in Sends :
          send'[s].gens > send[s].gens =>
            /\ Len(messages') = Len(messages) + 1
            /\ SubSeq(messages', 1, Len(messages)) = messages
            /\ messages'[Len(messages')].id = send'[s].placeholderId
            /\ messages'[Len(messages')].content = GeneratingText]_vars

C10_Witness ==
  \E s \in Sends :
    /\ send[s].pc = "img_generating"
    /\ GetMessages(send[s].convId) = messages
    /\ Len(messages) = 2

\* The rows of the send's conversation written for its assistant turn.
TurnRows(s) ==
  SelectSeq(GetMessages(send[s].convId),
            LAMBDA m : m.role = "assistant" /\ m.id > send[s].userMsgId)

\* The assistant messages the transcript shows after the send's user turn.
TurnMessages(s) ==
  LET after == {i \in DOMAIN messages : messages[i].id = send[s].userMsgId}
  IN  SelectSeq(messages,
                LAMBDA m : m.role = "assistant" /\ after # {}
                           /\ \E i \in after, j \in DOMAIN messages :
                                i < j /\ messages[j] = m)

ImageResolved(s) ==
  send[s].mode = "IMAGE" /\ send[s].pc = "done" /\ send[s].resultId # 0

\* C11: once the image of an image send has resolved, the send leaves one
\* assistant message for the turn, the one with the image reference, in the
\* transcript and in the store alike; no 'Generating image...' record remains.
C11_UpdatedInPlace ==
  \A s \in Sends :
    ImageResolved(s) =>
      /\ Len(TurnMessages(s)) = 1
      /\ TurnMessages(s)[1].id = send[s].resultId
      /\ Len(TurnRows(s)) = 1
      /\ TurnRows(s)[1].id = send[s].resultId
      /\ \A i \in DOMAIN dbMessages : dbMessages[i].content # GeneratingText

\* The upload of the send's attached file has failed (App.tsx:227-230).
UploadFailed(s) ==
  /\ send[s].file
  /\ send[s].convId # NoConv
  /\ send[s].pc \notin {"idle", "creating", "uploading"}
  /\ send[s].uploadedUrl # PublicUrl

\* The generation of the send's mode has been started.
Dispatched(s) ==
  IF send[s].mode = "IMAGE" THEN send[s].writes >= 1
  ELSE stream[s].pc # "none"

\* C12: when the upload of the attached file fails the send goes on: the
\* user message is persisted with the inline preview as its only attachment
\* reference, and generation is dispatched.
C12_FallsBackToPreview ==
  \A s \in Sends :
    UploadFailed(s) =>
      /\ send[s].pc = "rejected" => faults >= 2
      /\ \A i \in DOMAIN dbMessages :
           dbMessages[i].id = send[s].userMsgId =>
             /\ dbMessages[i].attachments = <<PreviewUrl>>
             /\ Dispatched(s)

\* The same when the preview had been delivered before the submit.
C12_WithPreview ==
  \A s \in Sends :
    UploadFailed(s) /\ send[s].preview # NoUrl =>
      /\ send[s].pc = "rejected" => faults >= 2
      /\ \A i \in DOMAIN dbMessages :
           dbMessages[i].id = send[s].userMsgId =>
             /\ dbMessages[i].attachments = <<PreviewUrl>>
             /\ Dispatched(s)

Stopped(s) == send[s].stoppedAt >= 0

\* C13: the stop action during a chat send clears the loading indicator and
\* nothing else: the stream is not aborted, chunks delivered afterwards still
\* update the placeholder, and the terminal callback still runs; on
\* completion the assistant message is written and the reload started.
C13_StopOnlyClearsIndicator ==
  /\ [][(\E s \in Sends : send'[s].stoppedAt # send[s].stoppedAt) =>
          /\ ~isLoading'
          /\ stream' = stream
          /\ messages' = messages
          /\ dbMessages' = dbMessages
          /\ \A s \in Sends :
               send'[s] = [send[s] EXCEPT !.stoppedAt = send'[s].stoppedAt]]_vars
  /\ [](\A s \in Sends :
          Stopped(s) =>
            /\ \A i \in DOMAIN messages :
                 messages[i].id = LocalId(s) /\ ~Has(stream[s].log, OnError)
                   => messages[i].content = TextsOf(stream[s].emitted)
            /\ Ended(stream[s]) =>
                 Has(stream[s].log, OnComplete) \/ Has(stream[s].log, OnError)
            /\ Has(stream[s].log, OnComplete) => send[s].writes = 1
            /\ send[s].resultId # 0 =>
                 /\ send[s].reload # "none"
                 /\ \E i \in DOMAIN dbMessages :
                      /\ dbMessages[i].id = send[s].resultId
                      /\ dbMessages[i].content = TextsOf(stream[s].emitted))

C13_Witness ==
  \E s \in Sends :
    /\ send[s].stoppedAt = 1
    /\ stream[s].emitted = <<"Hi", " there">>
    /\ send[s].reload = "done"
    /\ \E i \in DOMAIN messages :
         /\ messages[i].id = send[s].resultId
         /\ messages[i].content = <<"Hi", " there">>

\* C14: the category alone selects the adapter operation of a send:
\* generateImage if and only if it is IMAGE, chatStream otherwise, once the
\* send has come to its dispatch, and never both.
C14_CategoryDispatch ==
  \A s \in Sends :
    /\ send[s].gens >= 1 <=> send[s].mode = "IMAGE" /\ send[s].placeholderId # 0
    /\ stream[s].pc # "none" <=> send[s].mode # "IMAGE" /\ send[s].userMsgId # 0
    /\ send[s].gens <= 1
    /\ ~(send[s].gens >= 1 /\ stream[s].pc # "none")

C14_Witness ==
  \E s \in Sends :
    /\ send[s].mode = "IMAGE"
    /\ send[s].pc = "done"
    /\ send[s].gens = 1
    /\ send[s].resultId # 0
    /\ stream[s].pc = "none"

\* chatStream has composed its request for a non-empty list.
Composed(c) == c.pc \notin {"none", "compose"} /\ c.msgs # <<>>

Newest(c) == c.msgs[Len(c.msgs)]

C15_ScenarioA ==
  /\ Composed(stream[1])
  /\ Len(stream[1].msgs) = 1
  /\ stream[1].attachment = NoUrl
  /\ stream[1].history = <<>>
  /\ stream[1].message = <<TextPart(<<"Hello", "1st">>)>>

\* C16: with a just-added attachment the current turn is the text part and
\* one attachment part built from it, and no reference recorded on the newest
\* message is resolved or fetched; without one the recorded references are
\* resolved.
C16_JustAddedTakesPrecedence ==
  \A s \in Sends :
    LET c == stream[s]
        n == Len(c.msgs)
    IN  Composed(c) =>
          IF c.attachment # NoUrl
            THEN /\ Len(c.message) = 2
                 /\ c.message[2].kind = "inlineData"
                 /\ c.message[2].data = SplitData(c.attachment)
                 /\ \A f \in c.fetched : f.turn # n
            ELSE /\ \A k \in DOMAIN Newest(c).attachments :
                      LET att == Newest(c).attachments[k]
                      IN  /\ StartsWith(att, <<"http">>) =>
                               \E f \in c.fetched : f.turn = n /\ f.url = att
                          /\ StartsWith(att, <<"data", ":">>) =>
                               \E j \in DOMAIN c.message :
                                 c.message[j].data = SplitData(att)
                 /\ Len(c.message) <= 1 + Len(Newest(c).attachments)

C16_Witness ==
  /\ Composed(stream[1])
  /\ stream[1].attachment = PreviewUrl
  /\ Newest(stream[1]).attachments = <<PublicUrl, PreviewUrl>>
  /\ stream[1].message =
       <<TextPart(Newest(stream[1]).content),
         [kind |-> "inlineData", text |-> <<>>,
          mimeType |-> <<"image/png">>, data |-> <<"fileBytes">>]>>

\* The parts of the references of a message whose fetch did not fail.
RECURSIVE Surviving(_, _)
Surviving(atts, failed) ==
  IF atts = <<>> THEN 0
  ELSE (IF \/ StartsWith(Head(atts), <<"data", ":">>)
           \/ StartsWith(Head(atts), <<"http">>) /\ Head(atts) \notin failed
          THEN 1 ELSE 0) + Surviving(Tail(atts), failed)

FailedUrls(c, i) == {f.url : f \in {g \in c.fetched : g.turn = i /\ ~g.ok}}

\* C17: a failed fetch of a reference of a historical message leaves out that
\* attachment part alone: the turn keeps its text and the parts of its other
\* references, the request is still handed to the provider, and the
\* composition invokes no callback.
C17_FailedFetchOmitsOnePart ==
  /\ [](\A s \in Sends :
          LET c == stream[s]
          IN  Composed(c) =>
                \A i \in DOMAIN c.history :
                  LET parts == c.history[i].parts
                      failed == FailedUrls(c, i)
                  IN  /\ parts[1] = TextPart(c.msgs[i].content)
                      /\ Len(parts) = 1 + Surviving(c.msgs[i].attachments, failed)
                      /\ \A k \in DOMAIN parts, u \in failed :
                           parts[k].data # Fetched(u).data
                      /\ \A k \in DOMAIN c.msgs[i].attachments :
                           StartsWith(c.msgs[i].attachments[k], <<"data", ":">>) =>
                             \E j \in DOMAIN parts :
                               parts[j].data = SplitData(c.msgs[i].attachments[k]))
  /\ [][\A s \in Sends :
          stream[s].pc = "compose" /\ stream[s].msgs # <<>>
            /\ stream'[s].pc # "compose" =>
              /\ stream'[s].pc = "open"
              /\ stream'[s].log = stream[s].log
              /\ ~stream'[s].failed
              /\ stream'[s].message # <<>>]_vars

C17_Witness ==
  /\ stream[1].pc = "stream"
  /\ Len(stream[1].msgs) = 2
  /\ stream[1].msgs[1].attachments = <<PublicUrl, PreviewUrl>>
  /\ [turn |-> 1, url |-> PublicUrl, ok |-> FALSE] \in stream[1].fetched
  /\ Len(stream[1].history[1].parts) = 2
  /\ stream[1].history[1].parts[2].data = <<"fileBytes">>
  /\ stream[1].log = <<>>

SettledImage(g) == g.pc \in {"resolved", "rejected"}

\* C18: a generateImage call makes one provider request: the dedicated
\* image-generation request, and never the general one, for an identifier
\* with the marker; the general content-generation request for any other.
C18_OneProviderPath ==
  imageCall.pc # "none" =>
    imageCall.requests =
      IF HasImagenMarker(imageCall.build, imageCall.modelName)
        THEN <<"generateImages">> ELSE <<"generateContent">>

\* The error text holds the model identifier.
NamesModel(error, modelName) ==
  \E i \in 1..(Len(error) - Len(modelName) + 1) :
    SubSeq(error, i, i + Len(modelName) - 1) = modelName

\* C19: a call for an identifier with the marker whose image-generation
\* response holds no image bytes rejects with an error that names the model,
\* and never resolves to an image reference.
C19_NoBytesFailsNamingModel ==
  imageCall.imagen = "none" /\ SettledImage(imageCall) =>
    /\ imageCall.pc = "rejected"
    /\ imageCall.result = NoUrl
    /\ NamesModel(imageCall.error, imageCall.modelName)

\* The first part of a list that holds an inline binary part with data.
FirstImage(parts) ==
  LET images == {i \in DOMAIN parts : parts[i].data # ""}
  IN  IF images = {} THEN 0 ELSE CHOOSE i \in images : \A j \in images : i <= j

\* C20: on the general path, when the parts of the first candidate hold an
\* inline binary part with data, the call resolves to the inline reference
\* built from the first such part, whatever texts the response holds and
\* wherever they stand; it does not reject.
C20_ImagePartWins ==
  imageCall.hasParts /\ FirstImage(imageCall.parts) # 0 =>
    LET part == imageCall.parts[FirstImage(imageCall.parts)]
    IN  /\ imageCall.pc = "resolved"
        /\ imageCall.error = <<>>
        /\ imageCall.result =
             <<"data", ":", part.mimeType, ";", "base64", ",", part.data>>

C20_Witness ==
  /\ imageCall.parts =
       <<ResponseText(<<"Sorry, ", "I CANNOT GENERATE IMAGES", " with this model">>),
         ResponseImage("image/webp", "webpBytes")>>
  /\ imageCall.pc = "resolved"
  /\ imageCall.result = DataUrl("image/webp", "webpBytes")

\* The texts of the parts that carry one, in the order of the parts.
TextsIn(parts) ==
  LET texts == SelectSeq(parts, LAMBDA part : part.text # <<>>)
  IN  [i \in DOMAIN texts |-> texts[i].text]

\* The text indicates a capability refusal, by the test of the adapter.
IsRefusal(build, text) ==
  \/ Includes(ToLowerCase(text), "cannot generate images")
  \/ build = "part_002" /\ Includes(ToLowerCase(text), "unable to generate")

\* The kind of failure an error text stands for.
ErrorKind(error) ==
  IF error = <<>> THEN "none"
  ELSE IF error[1] \in {"This model (", "Model '"} THEN "GenerationDeclined"
  ELSE IF error[1] = "Model returned text instead of image: "
    THEN "UnexpectedTextResponse"
  ELSE IF error \in {NoImageData(b) : b \in Builds} THEN "NoImageData"
  ELSE "other"

\* C21: on the general path, a response without inline image part in which a
\* text part stands at any position rejects with GenerationDeclined, naming
\* the model, when the text indicates a refusal and with
\* UnexpectedTextResponse otherwise; NoImageData only when the response
\* holds neither an image part nor a text part.
C21_TextFailureAtAnyPosition ==
  imageCall.hasParts /\ FirstImage(imageCall.parts) = 0 =>
    LET texts == TextsIn(imageCall.parts)
    IN  /\ imageCall.pc = "rejected"
        /\ IF texts = <<>> THEN ErrorKind(imageCall.error) = "NoImageData"
           ELSE IF IsRefusal(imageCall.build, texts[1])
             THEN /\ ErrorKind(imageCall.error) = "GenerationDeclined"
                  /\ NamesModel(imageCall.error, imageCall.modelName)
           ELSE ErrorKind(imageCall.error) = "UnexpectedTextResponse"

\* The same for a text that stands in the first part.
C21_TextInFirstPart ==
  /\ imageCall.hasParts
  /\ FirstImage(imageCall.parts) = 0
  /\ imageCall.parts # <<>>
  /\ imageCall.parts[1].text # <<>>
  => /\ imageCall.pc = "rejected"
     /\ IF IsRefusal(imageCall.build, imageCall.parts[1].text)
          THEN /\ ErrorKind(imageCall.error) = "GenerationDeclined"
               /\ NamesModel(imageCall.error, imageCall.modelName)
          ELSE ErrorKind(imageCall.error) = "UnexpectedTextResponse"

\* The rows of the send's conversation that hold the image failure message.
FailureRows(s) ==
  {i \in DOMAIN dbMessages :
     /\ dbMessages[i].conversation_id = send[s].convId
     /\ dbMessages[i].role = "assistant"
     /\ dbMessages[i].image_url = NoUrl
     /\ dbMessages[i].content = FailedText \o <<"err">>}

\* C22: in image mode generateImage is invoked at most once per send; when it
\* fails, the failure message (role assistant, carrying the error text) is
\* written once: the store holds exactly one such row once the write has
\* settled with success, none before, and the step that settles the write
\* starts the reload, whose success shows the stored rows.
C22_ImageFailurePersistedOnce ==
  /\ [](\A s \in Sends :
          /\ send[s].gens <= 1
          /\ send[s].genFailed =>
               /\ send[s].gens = 1
               /\ send[s].pc \in {"img_failmsg", "done", "rejected"}
               /\ Cardinality(FailureRows(s)) = IF send[s].pc = "done" THEN 1 ELSE 0
               /\ send[s].reload # "none" <=> send[s].pc = "done")
  /\ [][\A s \in Sends :
          send[s].genFailed /\ send[s].reload = "pending" /\ send'[s].reload = "done"
            => messages' = GetMessages(send[s].convId)]_vars

C22_Witness ==
  \E s \in Sends :
    /\ send[s].genFailed
    /\ send[s].reload = "done"
    /\ Cardinality(FailureRows(s)) = 1
    /\ Len(messages) = 3
    /\ messages[3].content = FailedText \o <<"err">>
    /\ messages[2].content = GeneratingText

\* The send created its conversation: the effect of App.tsx:99-105 ran for it.
Created(s) == send[s].effLoad # "none"

\* The rows the send is known to have written.
OwnRows(s) ==
  {i \in DOMAIN dbMessages :
     /\ dbMessages[i].id # 0
     /\ dbMessages[i].id \in {send[s].userMsgId, send[s].placeholderId, send[s].resultId}}

\* C23: a send issued with no conversation selected creates exactly one
\* conversation, before its user message is persisted, and selects it; a send
\* issued with a conversation selected creates none and takes the selected
\* one; every row a send writes references its conversation.
C23_LazyConversation ==
  /\ [](/\ Cardinality(DOMAIN dbConvs) = Cardinality({s \in Sends : Created(s)})
        /\ \A s \in Sends :
             /\ Created(s) => \A t \in Sends \ {s} : send[t].convId # send[s].convId
                                                      \/ ~Created(t)
             /\ send[s].userMsgId # 0 =>
                  /\ send[s].convId \in DOMAIN dbConvs
                  /\ send[s].convId < send[s].userMsgId
             /\ \A i \in OwnRows(s) : dbMessages[i].conversation_id = send[s].convId)
  /\ [][\A s \in Sends :
          /\ send[s].pc = "idle" /\ send'[s].pc # "idle" =>
               IF currentConversationId = NoConv
                 THEN send'[s].pc = "creating" /\ send'[s].convId = NoConv
                 ELSE /\ send'[s].pc # "creating"
                      /\ send'[s].convId = currentConversationId
                      /\ ~Created(s)'
          /\ send[s].pc = "creating" /\ send'[s].pc \notin {"creating", "rejected"} =>
               /\ DOMAIN dbConvs' = DOMAIN dbConvs \cup {send'[s].convId}
               /\ send'[s].convId \notin DOMAIN dbConvs
               /\ currentConversationId' = send'[s].convId
               /\ dbMessages' = dbMessages
          /\ send[s].pc \notin {"idle", "creating"} /\ send'[s] # send[s] =>
               /\ DOMAIN dbConvs' = DOMAIN dbConvs
               /\ send'[s].convId = send[s].convId
               /\ dbMessages' # dbMessages =>
                    /\ Len(dbMessages') = Len(dbMessages) + 1
                    /\ SubSeq(dbMessages', 1, Len(dbMessages)) = dbMessages
                    /\ dbMessages'[Len(dbMessages')].conversation_id = send[s].convId
                    /\ send[s].convId \in DOMAIN dbConvs]_vars

C23_Witness ==
  /\ Created(1) /\ ~Created(2)
  /\ send[2].convId = send[1].convId
  /\ send[2].pc = "done" /\ send[2].resultId # 0
  /\ Cardinality(DOMAIN dbConvs) = 1
  /\ Cardinality({i \in DOMAIN dbMessages :
                    dbMessages[i].conversation_id = send[1].convId}) >= 4

\* The row the send's completed stream wrote.
ResultRow(db, s) ==
  SelectSeq(db, LAMBDA m : m.id = send[s].resultId)

\* C24: when the reload after a completed chat stream fails, the step that
\* settles it changes neither the store nor the visible transcript, and the
\* indicator the completion cleared is not set by it; the assistant message
\* written on completion stays in the store as it was written.
C24_FailedReloadChangesNothing ==
  /\ [][\A s \in Sends :
          send[s].mode = "CHAT" /\ send[s].reload = "pending"
            /\ send'[s].reload = "failed" =>
              /\ dbMessages' = dbMessages
              /\ dbConvs' = dbConvs
              /\ messages' = messages
              /\ isLoading' = isLoading
              /\ send'[s].pc = "done"]_vars
  /\ [](\A s \in Sends :
          send[s].mode = "CHAT" /\ send[s].reload # "none" =>
            /\ send[s].pc = "done"
            /\ ResultRow(dbMessages, s) =
                 <<Row(send[s].resultId,
                       NewMessage(send[s].convId, "assistant",
                                  send[s].streamContent, NoUrl, <<>>))>>)
  /\ [][\A s \in Sends :
          send[s].mode = "CHAT" /\ send[s].reload = "none"
            /\ send'[s].reload = "pending" => ~isLoading']_vars

C24_Witness ==
  \E s \in Sends :
    /\ send[s].mode = "CHAT"
    /\ send[s].reload = "failed"
    /\ ~isLoading
    /\ Len(ResultRow(dbMessages, s)) = 1
    /\ \E i \in DOMAIN messages :
         messages[i].id = LocalId(s) /\ messages[i].content = <<"Hi", " there">>

\* C25: on every chunk step the transcript is the one SetContent gives for
\* the cumulative buffer, and applying the same buffer to it once more gives
\* the same transcript: the placeholder shows the buffer, every other message
\* is as before, and none is added or removed.
C25_ChunkUpdateIdempotent ==
  [][\A s \in Sends :
       send'[s].streamContent # send[s].streamContent =>
         LET buffer == send'[s].streamContent
             once == SetContent(messages, LocalId(s), buffer)
             twice == SetContent(once, LocalId(s), buffer)
         IN  /\ messages' = once
             /\ twice = once
             /\ Len(twice) = Len(messages)
             /\ \A i \in DOMAIN messages :
                  IF messages[i].id = LocalId(s)
                    THEN twice[i] = [messages[i] EXCEPT !.content = buffer]
                    ELSE twice[i] = messages[i]]_vars

C25_Witness ==
  \E s \in Sends :
    /\ send[s].pc = "chat" /\ stream[s].pc = "stream"
    /\ send[s].streamContent = <<"Hi", " there">>
    /\ Len(messages) = 2
    /\ messages[1].id = send[s].userMsgId
    /\ messages[2] = [OptimisticMsg(s) EXCEPT !.content = <<"Hi", " there">>]

\* The errors the backend reported to the chatService call.
ReportedErrors ==
  {serviceCall.reported[i] : i \in DOMAIN serviceCall.reported} \ {NoError}

\* C26: a chatService call to which the backend reported an error rejects
\* with that error and returns no normal result, whichever operation it is.
C26_BackendErrorRejects ==
  \A err \in ReportedErrors :
    /\ serviceCall.pc = "rejected"
    /\ serviceCall.error = err

\* The same for every operation but addMessage and getProviders, and for the
\* insert of addMessage.
C26_ThrowingOperations ==
  /\ serviceCall.op \notin {"addMessage", "getProviders"} =>
       C26_BackendErrorRejects
  /\ serviceCall.op = "addMessage" /\ StoreError(1) \in ReportedErrors =>
       serviceCall.pc = "rejected" /\ serviceCall.error = StoreError(1)

\* The messages of the deleteConversation call's conversation, in a table.
MessagesOf(table) ==
  SelectSeq(table, LAMBDA m : m.conversation_id = serviceCall.arg.id)

\* C27: deleteConversation(id) that returns leaves neither the conversation
\* nor a message of it in the store; however it settles, the store does not
\* hold messages of a deleted conversation, nor the conversation without the
\* messages it had.
C27_DeleteConversationCascades ==
  serviceCall.op = "deleteConversation" /\ serviceCall.pc \in {"returned", "rejected"} =>
    LET id == serviceCall.arg.id
    IN  /\ serviceCall.pc = "returned" =>
             id \notin DOMAIN dbConvs /\ MessagesOf(dbMessages) = <<>>
        /\ ~(id \notin DOMAIN dbConvs /\ MessagesOf(dbMessages) # <<>>)
        /\ ~(/\ id \in DOMAIN dbConvs
             /\ MessagesOf(serviceCall.messagesBefore) # <<>>
             /\ MessagesOf(dbMessages) = <<>>)

\* The returning call alone: the cascade on success.
C27_SuccessRemovesBoth ==
  serviceCall.op = "deleteConversation" /\ serviceCall.pc = "returned" =>
    /\ serviceCall.arg.id \notin DOMAIN dbConvs
    /\ MessagesOf(dbMessages) = <<>>

\* The positions of the send's placeholder in the transcript.
PlaceholdersOf(s) == {i \in DOMAIN messages : messages[i].id = LocalId(s)}

\* The send's chatStream invoked a chunk or an error callback in this step.
ChunkOrErrorStep(s) ==
  /\ Len(stream'[s].log) > Len(stream[s].log)
  /\ stream'[s].log[Len(stream'[s].log)].cb \in {"onChunk", "onError"}

\* C28: two chat sends have placeholders with distinct local identifiers, each
\* at most once in the transcript, and a chunk or error callback of one send
\* changes no message but that send's placeholder, of which it changes the
\* content only; it adds and removes none and leaves the other send alone.
C28_IndependentPlaceholders ==
  /\ [](\A s, t \in Sends :
          /\ Cardinality(PlaceholdersOf(s)) <= 1
          /\ s # t => LocalId(s) # LocalId(t) /\ PlaceholdersOf(s) \cap PlaceholdersOf(t) = {})
  /\ [][\A s \in Sends :
          ChunkOrErrorStep(s) =>
            /\ Len(messages') = Len(messages)
            /\ \A i \in DOMAIN messages :
                 IF i \in PlaceholdersOf(s)
                   THEN messages'[i] = [messages[i] EXCEPT !.content = messages'[i].content]
                   ELSE messages'[i] = messages[i]
            /\ \A t \in Sends \ {s} : send'[t] = send[t] /\ stream'[t] = stream[t]]_vars

C28_Witness ==
  /\ stream[1].pc = "stream" /\ stream[2].pc = "stream"
  /\ \E i, j \in DOMAIN messages :
       /\ messages[i].id = LocalId(1) /\ messages[j].id = LocalId(2)
       /\ messages[i].content = <<>>
       /\ messages[j].content = <<"Hi">>

\* The transcript shows the send's user turn and, after it, its placeholder.
PlaceholderShown(s) ==
  \E i, j \in DOMAIN messages :
    /\ i < j
    /\ messages[i].id = send[s].userMsgId
    /\ messages[j].id = LocalId(s)

\* C29: from the step that appends a chat send's placeholder until its
\* terminal callback, the transcript shows the user turn followed by the
\* placeholder, whether or not the send created its conversation.
C29_PlaceholderStaysVisible ==
  \A s \in Sends :
    send[s].mode = "CHAT" /\ send[s].pc = "chat" => PlaceholderShown(s)

\* The same while the load started by the selection has not delivered rows.
C29_UntilLoadArrives ==
  \A s \in Sends :
    send[s].mode = "CHAT" /\ send[s].pc = "chat" /\ send[s].effLoad # "done"
      => PlaceholderShown(s)

\* C30: the transcript holds messages of the selected conversation only, and
\* none when no conversation is selected or no user is signed in.
C30_TranscriptOfSelection ==
  /\ \A i \in DOMAIN messages :
       messages[i].conversation_id = currentConversationId
  /\ currentConversationId = NoConv \/ ~session => messages = <<>>

\* No request is in flight: the send has come to rest and no load or delete
\* is pending.
AtRest ==
  /\ \A s \in Sends : Settled(s)
  /\ loads = {}
  /\ deletion.pc = "none"

\* The same for the states in which nothing is in flight.
C30_AtRest == AtRest => C30_TranscriptOfSelection

\* The same after a sign-out.
C30_SignedOutEmpty == ~session => messages = <<>>

====
